---------------------------- MODULE Spec2Model ----------------------------
(***************************************************************************)
(* Gravity sandbox (bondar-pavel/gravity): the World entity store, the    *)
(* Velocity Verlet step, the collision and merge resolver, culling and     *)
(* the ejecta of world.go and object.go.                                   *)
(*                                                                         *)
(* Numbers.  The program computes in float64.  Here a coordinate, a        *)
(* velocity and an acceleration are integers counting 1/Scale of a world   *)
(* unit (fixed point), a radius is an integer as in the program, and a     *)
(* mass is an integer (radius*radius, always integral in the program).     *)
(* A division rounds toward zero (Quot).  TLC's integers are 32 bits wide, *)
(* so a product is formed only once its factors are known to be small;     *)
(* where the program squares an arbitrary distance the comparison is made  *)
(* exactly on the split operands (FartherThan).                            *)
(*                                                                         *)
(* Pointers.  A *Object is an identity id >= 1 (0 is nil); the record of   *)
(* a body carries its id, and world.objects is the sequence of records.    *)
(***************************************************************************)
EXTENDS Integers, Sequences, FiniteSets, TLC

Scale == 100

\* main.go constants (the Game version of main.go)
screenWidth == 1600
screenHeight == 1200
cullDistance == 5000

\* bounds of the model
MaxBodies == 2
MaxTicks == 2

Nil == 0

----------------------------------------------------------------------------
\* arithmetic

Abs(a) == IF a < 0 THEN -a ELSE a

\* a / b rounded toward zero
Quot(a, b) ==
    IF (a < 0) = (b < 0) THEN Abs(a) \div Abs(b) ELSE -(Abs(a) \div Abs(b))

RECURSIVE SqrtSearch(_, _, _)
SqrtSearch(n, lo, hi) ==
    IF lo >= hi THEN lo
    ELSE LET mid == (lo + hi + 1) \div 2
         IN  IF mid * mid <= n THEN SqrtSearch(n, mid, hi)
                               ELSE SqrtSearch(n, lo, mid - 1)

\* int(math.Sqrt(float64(n))) for n >= 0
ISqrt(n) == SqrtSearch(n, 0, 46340)

\* dx*dx + dy*dy > limit*limit for dx, dy in 1/Scale units and limit in whole
\* units, computed exactly without forming dx*dx: dx = qx*Scale + rx.
FartherThan(dx, dy, limit) ==
    LET qx == dx \div Scale
        rx == dx % Scale
        qy == dy \div Scale
        ry == dy % Scale
        whole == qx * qx + qy * qy
        rest == 2 * Scale * (qx * rx + qy * ry) + rx * rx + ry * ry
        gap == limit * limit - whole
    IN  IF gap > 4 * limit THEN FALSE
        ELSE IF gap < -(4 * limit) THEN TRUE
        ELSE rest > gap * Scale * Scale

----------------------------------------------------------------------------
\* Object and World (the entity store)

NewObject(id, x, y, radius) ==
    [id |-> id, x |-> x, y |-> y, radius |-> radius, mass |-> radius * radius,
     velocityX |-> 0, velocityY |-> 0, ax |-> 0, ay |-> 0, pinned |-> FALSE,
     mergeTimer |-> 0, mergeRadius |-> 0, mergeFlash |-> 0]

Ids(objs) == {objs[i].id : i \in DOMAIN objs}

\* AddObject that puts the new body first
AddObjectFirst(objs, id, x, y, radius) ==
    <<NewObject(id, x, y, radius)>> \o objs

\* World.AddObject: the new body goes to the end of w.objects
AddObject(objs, id, x, y, radius) == Append(objs, NewObject(id, x, y, radius))

RECURSIVE IndexOf(_, _, _)
IndexOf(objs, id, i) ==
    IF i > Len(objs) THEN 0
    ELSE IF objs[i].id = id THEN i
    ELSE IndexOf(objs, id, i + 1)

\* the body with identity id among objs (id is in Ids(objs))
Body(objs, id) == objs[IndexOf(objs, id, 1)]

\* RemoveObject that drops the last body whenever the identity is in the store
RemoveObjectLast(objs, id) ==
    IF id \in Ids(objs) THEN SubSeq(objs, 1, Len(objs) - 1) ELSE objs

\* RemoveObject that shifts the later bodies down and keeps the length
RemoveObjectKeepingLength(objs, id) ==
    IF id \in Ids(objs)
    THEN SubSeq(objs, 1, IndexOf(objs, id, 1) - 1)
             \o SubSeq(objs, IndexOf(objs, id, 1) + 1, Len(objs))
             \o <<objs[Len(objs)]>>
    ELSE objs

\* World.RemoveObject: drops the first element that is obj, if there is one
RemoveObject(objs, id) ==
    LET i == IndexOf(objs, id, 1)
    IN  IF i = 0 THEN objs
        ELSE SubSeq(objs, 1, i - 1) \o SubSeq(objs, i + 1, Len(objs))

RECURSIVE FindFrom(_, _, _, _, _)
FindFrom(objs, wx, wy, radius, i) ==
    IF i > Len(objs) THEN Nil
    ELSE LET o == objs[i]
             dx == o.x - wx
             dy == o.y - wy
             threshold == (radius + o.radius) * Scale
         IN  IF Abs(dx) < threshold /\ Abs(dy) < threshold
                /\ dx * dx + dy * dy < threshold * threshold
             THEN o.id
             ELSE FindFrom(objs, wx, wy, radius, i + 1)

\* FindObject that reaches one unit farther
FindObjectWider(objs, wx, wy, radius) == FindFrom(objs, wx, wy, radius + 1, 1)

\* World.FindObject
FindObject(objs, wx, wy, radius) == FindFrom(objs, wx, wy, radius, 1)

----------------------------------------------------------------------------
\* Object: gravity and the Verlet halves (object.go)

\* gravitationalConstant = 0.005 = GNum/GDen; softeningParameter = 10.0
GNum == 5
GDen == 1000
softeningParameter == 10
\* frictionCoeff = 0.001 (in thousandths), restitution = 0.8 (in tenths)
frictionCoeff == 1
restitution == 8
\* screenBounceEfficiency = 0.5 = 1/BounceDen
BounceDen == 2
\* beyond this many 1/Scale units a squared distance is formed on whole units
NearLimit == 30000

\* A ratio in whole units, in 1/Scale units.  Beyond NearLimit * NearLimit it
\* stays as it is: a ratio that large gives no pull at all (PullFrom).
InUnits(r) ==
    IF Abs(r) > (NearLimit * NearLimit) \div Scale THEN r ELSE r * Scale

\* (dx*dx + dy*dy + softSq) / dx, the reciprocal of one body's pull per unit
\* of G*mass ratio, in 1/Scale units; it is at least 2*softening in size.
PullRatio(dx, dy) ==
    IF Abs(dx) <= NearLimit /\ Abs(dy) <= NearLimit
    THEN IF dx = 0 THEN 0
         ELSE Quot(dx * dx + dy * dy
                     + softeningParameter * softeningParameter * Scale * Scale, dx)
    ELSE LET qx == Quot(dx, Scale)
             qy == Quot(dy, Scale)
         IN  IF qx = 0 THEN 0
             ELSE InUnits(Quot(qx * qx + qy * qy
                                 + softeningParameter * softeningParameter, qx))

\* PullFrom with the two masses exchanged: the pull divided by the mass of
\* the pulling body
PullFromSwapped(mi, mj, dx, dy) ==
    LET ratio == PullRatio(dx, dy)
        num == (GNum * Scale * Scale * mi) \div GDen
    IN  IF ratio = 0 THEN 0
        ELSE IF Abs(ratio) > num \div mj THEN 0
        ELSE Quot(num, mj * ratio)

\* gravitationalConstant * (obj.mass / o.mass) * dx / distSq, in 1/Scale units:
\* G * Scale^2 * mj / (mi * ratio), zero when the quotient is below one unit.
PullFrom(mi, mj, dx, dy) ==
    LET ratio == PullRatio(dx, dy)
        num == (GNum * Scale * Scale * mj) \div GDen
    IN  IF ratio = 0 THEN 0
        ELSE IF Abs(ratio) > num \div mi THEN 0
        ELSE Quot(num, mi * ratio)

RECURSIVE AccelFrom(_, _, _)
AccelFrom(o, objs, i) ==
    IF i > Len(objs) THEN <<0, 0>>
    ELSE LET rest == AccelFrom(o, objs, i + 1)
             obj == objs[i]
         IN  IF obj.id = o.id THEN rest
             ELSE <<PullFrom(o.mass, obj.mass, obj.x - o.x, obj.y - o.y) + rest[1],
                    PullFrom(o.mass, obj.mass, obj.y - o.y, obj.x - o.x) + rest[2]>>

\* Object.CalculateAcceleration
CalculateAcceleration(o, objs) == AccelFrom(o, objs, 1)

\* Object.UpdatePositionVerlet
UpdatePositionVerlet(o) ==
    [o EXCEPT !.x = o.x + o.velocityX + Quot(o.ax, 2),
              !.y = o.y + o.velocityY + Quot(o.ay, 2)]

\* Object.UpdateVelocityVerlet
UpdateVelocityVerlet(o, newAX, newAY) ==
    [o EXCEPT !.velocityX = o.velocityX + Quot(o.ax + newAX, 2),
              !.velocityY = o.velocityY + Quot(o.ay + newAY, 2),
              !.ax = newAX,
              !.ay = newAY]

\* Object.BounceOnScreenCollision
BounceOnScreenCollision(o) ==
    LET r == o.radius * Scale
        vx == IF (o.x - r < 0 /\ o.velocityX < 0)
                 \/ (o.x + r > screenWidth * Scale /\ o.velocityX > 0)
              THEN Quot(-o.velocityX, BounceDen) ELSE o.velocityX
        vy == IF (o.y - r < 0 /\ o.velocityY < 0)
                 \/ (o.y + r > screenHeight * Scale /\ o.velocityY > 0)
              THEN Quot(-o.velocityY, BounceDen) ELSE o.velocityY
    IN  [o EXCEPT !.velocityX = vx, !.velocityY = vy]

\* UpdateRotation that lets the expansion radius shrink instead of grow
UpdateRotationShrinking(o) ==
    LET t == IF o.mergeTimer > 0
             THEN (IF o.mergeTimer - 15 < 0 THEN 0 ELSE o.mergeTimer - 15)
             ELSE o.mergeTimer
        r == IF o.mergeTimer > 0
             THEN (IF o.mergeRadius - 5 < 0 THEN 0 ELSE o.mergeRadius - 5)
             ELSE o.mergeRadius
        f == IF o.mergeFlash > 0
             THEN (IF o.mergeFlash - 30 < 0 THEN 0 ELSE o.mergeFlash - 30)
             ELSE o.mergeFlash
    IN  [o EXCEPT !.mergeTimer = t, !.mergeRadius = r, !.mergeFlash = f]

\* Object.UpdateRotation: the merge animation (timer and flash in thousandths);
\* the angle is cosmetic and never read by the engine.
UpdateRotation(o) ==
    LET t == IF o.mergeTimer > 0
             THEN (IF o.mergeTimer - 15 < 0 THEN 0 ELSE o.mergeTimer - 15)
             ELSE o.mergeTimer
        r == IF o.mergeTimer > 0 THEN o.mergeRadius + 5 ELSE o.mergeRadius
        f == IF o.mergeFlash > 0
             THEN (IF o.mergeFlash - 30 < 0 THEN 0 ELSE o.mergeFlash - 30)
             ELSE o.mergeFlash
    IN  [o EXCEPT !.mergeTimer = t, !.mergeRadius = r, !.mergeFlash = f]

----------------------------------------------------------------------------
\* Object: collision response and merge (object.go)

\* normal * q, where normal = d / distance.  A distance below 0.001 is one
\* below a unit, so d = 0 there and the clamped normal is 0 / 0.001 = 0.
Along(d, q, distance) == IF distance = 0 THEN 0 ELSE Quot(d * q, distance)

\* Object.CollideWith, lines 92-103: the separation.  pushX, pushY is
\* normal * overlap.
Separate(o, obj, pushX, pushY) ==
    LET totalMass == o.mass + obj.mass
    IN  IF o.pinned
        THEN [o |-> o,
              obj |-> [obj EXCEPT !.x = obj.x + pushX, !.y = obj.y + pushY]]
        ELSE IF obj.pinned
        THEN [o |-> [o EXCEPT !.x = o.x - pushX, !.y = o.y - pushY],
              obj |-> obj]
        ELSE [o |-> [o EXCEPT !.x = o.x - Quot(pushX * obj.mass, totalMass),
                              !.y = o.y - Quot(pushY * obj.mass, totalMass)],
              obj |-> [obj EXCEPT !.x = obj.x + Quot(pushX * o.mass, totalMass),
                                  !.y = obj.y + Quot(pushY * o.mass, totalMass)]]

\* Kick that scales the velocity change of each body by its own mass
KickOwnMass(o, obj, bounce, dx, dy, distance) ==
    LET totalMass == o.mass + obj.mass
        toO == IF obj.pinned THEN bounce ELSE Quot(bounce * o.mass, totalMass)
        toObj == IF o.pinned THEN bounce ELSE Quot(bounce * obj.mass, totalMass)
    IN  IF o.pinned
        THEN [o |-> o,
              obj |-> [obj EXCEPT
                         !.velocityX = obj.velocityX + Along(dx, toObj, distance),
                         !.velocityY = obj.velocityY + Along(dy, toObj, distance)],
              merge |-> FALSE]
        ELSE IF obj.pinned
        THEN [o |-> [o EXCEPT
                       !.velocityX = o.velocityX - Along(dx, toO, distance),
                       !.velocityY = o.velocityY - Along(dy, toO, distance)],
              obj |-> obj,
              merge |-> FALSE]
        ELSE [o |-> [o EXCEPT
                       !.velocityX = o.velocityX - Along(dx, toO, distance),
                       !.velocityY = o.velocityY - Along(dy, toO, distance)],
              obj |-> [obj EXCEPT
                         !.velocityX = obj.velocityX + Along(dx, toObj, distance),
                         !.velocityY = obj.velocityY + Along(dy, toObj, distance)],
              merge |-> FALSE]

\* Kick that shares the impulse between the two bodies by their masses
\* whether or not one of them is fixed
KickShared(o, obj, bounce, dx, dy, distance) ==
    LET totalMass == o.mass + obj.mass
        toO == Quot(bounce * obj.mass, totalMass)
        toObj == Quot(bounce * o.mass, totalMass)
    IN  [o |-> [o EXCEPT
                  !.velocityX = o.velocityX - Along(dx, toO, distance),
                  !.velocityY = o.velocityY - Along(dy, toO, distance)],
         obj |-> [obj EXCEPT
                    !.velocityX = obj.velocityX + Along(dx, toObj, distance),
                    !.velocityY = obj.velocityY + Along(dy, toObj, distance)],
         merge |-> FALSE]

\* Object.CollideWith, lines 113-127: the impulse.  bounce is
\* (1 + restitution) * (myProj - objProj); kickX, kickY is normal * bounce for
\* a pinned partner, and normal * bounce * mass / totalMass of the partner's
\* mass otherwise.
Kick(o, obj, bounce, dx, dy, distance) ==
    LET totalMass == o.mass + obj.mass
        toO == IF obj.pinned THEN bounce ELSE Quot(bounce * obj.mass, totalMass)
        toObj == IF o.pinned THEN bounce ELSE Quot(bounce * o.mass, totalMass)
    IN  IF o.pinned
        THEN [o |-> o,
              obj |-> [obj EXCEPT
                         !.velocityX = obj.velocityX + Along(dx, toObj, distance),
                         !.velocityY = obj.velocityY + Along(dy, toObj, distance)],
              merge |-> FALSE]
        ELSE IF obj.pinned
        THEN [o |-> [o EXCEPT
                       !.velocityX = o.velocityX - Along(dx, toO, distance),
                       !.velocityY = o.velocityY - Along(dy, toO, distance)],
              obj |-> obj,
              merge |-> FALSE]
        ELSE [o |-> [o EXCEPT
                       !.velocityX = o.velocityX - Along(dx, toO, distance),
                       !.velocityY = o.velocityY - Along(dy, toO, distance)],
              obj |-> [obj EXCEPT
                         !.velocityX = obj.velocityX + Along(dx, toObj, distance),
                         !.velocityY = obj.velocityY + Along(dy, toObj, distance)],
              merge |-> FALSE]

\* Respond that merges in merge mode whether or not a body is fixed
RespondMergingFixed(p, e, merge, dx, dy, distance) ==
    IF merge
    THEN [o |-> p.o, obj |-> p.obj, merge |-> TRUE]
    ELSE Kick(p.o, p.obj,
              Quot((10 + e) * (Along(p.o.velocityX, dx, distance)
                               + Along(p.o.velocityY, dy, distance)
                               - Along(p.obj.velocityX, dx, distance)
                               - Along(p.obj.velocityY, dy, distance)), 10),
              dx, dy, distance)

\* Object.CollideWith, lines 105-129, on the separated pair p
Respond(p, e, merge, dx, dy, distance) ==
    IF merge /\ ~p.o.pinned /\ ~p.obj.pinned
    THEN [o |-> p.o, obj |-> p.obj, merge |-> TRUE]
    ELSE Kick(p.o, p.obj,
              Quot((10 + e) * (Along(p.o.velocityX, dx, distance)
                               + Along(p.o.velocityY, dy, distance)
                               - Along(p.obj.velocityX, dx, distance)
                               - Along(p.obj.velocityY, dy, distance)), 10),
              dx, dy, distance)

\* Object.CollideWith, lines 81-129, for a pair at that distance
Overlapping(o, obj, e, merge, dx, dy, minDist, distance) ==
    Respond(Separate(o, obj, Along(dx, minDist - distance, distance),
                             Along(dy, minDist - distance, distance)),
            e, merge, dx, dy, distance)

\* the centers of a and b are closer than the sum of their radii
Touching(a, b) ==
    /\ Abs(a.x - b.x) < (a.radius + b.radius) * Scale
    /\ Abs(a.y - b.y) < (a.radius + b.radius) * Scale
    /\ (a.x - b.x) * (a.x - b.x) + (a.y - b.y) * (a.y - b.y)
           < (a.radius + b.radius) * Scale * (a.radius + b.radius) * Scale

\* CollideWith that lets two bodies that exactly touch interact
CollideWithOnContact(o, obj, e, merge) ==
    LET dx == obj.x - o.x
        dy == obj.y - o.y
        minDist == (o.radius + obj.radius) * Scale
    IN  IF Abs(dx) > minDist \/ Abs(dy) > minDist
           \/ dx * dx + dy * dy > minDist * minDist
        THEN [o |-> o, obj |-> obj, merge |-> FALSE]
        ELSE Overlapping(o, obj, e, merge, dx, dy, minDist,
                         ISqrt(dx * dx + dy * dy))

\* Object.CollideWith.  The result is the pair as the call leaves it and the
\* returned flag.
CollideWith(o, obj, e, merge) ==
    LET dx == obj.x - o.x
        dy == obj.y - o.y
        minDist == (o.radius + obj.radius) * Scale
    IN  IF Abs(dx) >= minDist \/ Abs(dy) >= minDist
           \/ dx * dx + dy * dy >= minDist * minDist
        THEN [o |-> o, obj |-> obj, merge |-> FALSE]
        ELSE Overlapping(o, obj, e, merge, dx, dy, minDist,
                         ISqrt(dx * dx + dy * dy))

\* the mean of the two radii instead of the area-preserving radius
MergedRadiusMean(r1, r2) == (r1 + r2) \div 2

\* int(math.Sqrt(...)) of the summed areas, at least 1: lines 182-185
MergedRadius(r1, r2) ==
    IF ISqrt(r1 * r1 + r2 * r2) < 1 THEN 1 ELSE ISqrt(r1 * r1 + r2 * r2)

\* Object.MergeFrom, lines 190-205, with the new radius
Absorb(o, obj, newRadius) ==
    LET newMass == o.mass + obj.mass
    IN  [o EXCEPT
           !.x = o.x + Quot(obj.mass * (obj.x - o.x), newMass),
           !.y = o.y + Quot(obj.mass * (obj.y - o.y), newMass),
           !.velocityX = Quot(o.mass * o.velocityX + obj.mass * obj.velocityX,
                              newMass),
           !.velocityY = Quot(o.mass * o.velocityY + obj.mass * obj.velocityY,
                              newMass),
           !.radius = newRadius,
           !.mass = newRadius * newRadius,
           !.mergeTimer = 1000,
           !.mergeRadius = newRadius,
           !.mergeFlash = 1000]

\* Object.MergeFrom.  The center of mass (m1*x1 + m2*x2) / (m1 + m2) is formed
\* as x1 + m2*(x2 - x1) / (m1 + m2), the same number with small factors.
\* The spin (angularVelocity) is cosmetic and not modelled.
MergeFrom(o, obj) == Absorb(o, obj, MergedRadius(o.radius, obj.radius))

----------------------------------------------------------------------------
\* World: the step (world.go)

\* SpawnEjecta without the limit of 16 particles
SpawnEjectaUnclamped(count) ==
    [i \in 1..count |-> [life |-> 1000, size |-> 2 + ((i - 1) % 3)]]

\* World.SpawnEjecta: the burst of one merge.  A particle keeps its life (in
\* thousandths) and its size; where it flies is cosmetic and not modelled.
SpawnEjecta(count) ==
    LET n == IF count > 16 THEN 16 ELSE count
    IN  [i \in 1..n |-> [life |-> 1000, size |-> 2 + ((i - 1) % 3)]]

\* updateEjecta that drops a particle one step after its life has run out
updateEjectaLate(ejecta) ==
    SelectSeq([i \in 1..Len(ejecta) |-> [ejecta[i] EXCEPT !.life = @ - 15]],
              LAMBDA p : p.life > -15)

\* World.updateEjecta: every particle ages by 0.015 and the dead are dropped
updateEjecta(ejecta) ==
    SelectSeq([i \in 1..Len(ejecta) |-> [ejecta[i] EXCEPT !.life = @ - 15]],
              LAMBDA p : p.life > 0)

\* the identities of the bodies of seq, in their order
IdsOf(seq) == [k \in 1..Len(seq) |-> seq[k].id]

RECURSIVE RemoveAll(_, _, _)
RemoveAll(objs, toRemove, k) ==
    IF k > Len(toRemove) THEN objs
    ELSE RemoveAll(RemoveObject(objs, toRemove[k]), toRemove, k + 1)

\* 8 + int(speed), speed the relative speed of the pair + 1.0: lines 137-143
BurstCount(o, obj) ==
    8 + (ISqrt((o.velocityX - obj.velocityX) * (o.velocityX - obj.velocityX)
               + (o.velocityY - obj.velocityY) * (o.velocityY - obj.velocityY))
         \div Scale) + 1

\* MergePair that takes the absorbed body out of the store at once
MergePairRemovingAtOnce(st, i, j, o, obj, merged, burst) ==
    [objs |-> RemoveObject([st.objs EXCEPT ![i] = merged], obj.id),
     toRemove |-> Append(st.toRemove, obj.id),
     ejecta |-> st.ejecta \o burst,
     merges |-> Append(st.merges,
                       [into |-> o, from |-> obj, result |-> merged,
                        i |-> i, j |-> j, count |-> Len(burst)]),
     pairs |-> st.pairs]

\* World.handleCollisions, lines 136-145: the pair (i, j) merges.  o and obj
\* are the pair as CollideWith left it.
MergePair(st, i, j, o, obj, merged, burst) ==
    [objs |-> [st.objs EXCEPT ![i] = merged, ![j] = obj],
     toRemove |-> Append(st.toRemove, obj.id),
     ejecta |-> st.ejecta \o burst,
     merges |-> Append(st.merges,
                       [into |-> o, from |-> obj, result |-> merged,
                        i |-> i, j |-> j, count |-> Len(burst)]),
     pairs |-> st.pairs]

\* the pair (i, j) after CollideWith returned c
AfterCollide(st, i, j, c) ==
    IF c.merge
    THEN MergePair(st, i, j, c.o, c.obj, MergeFrom(c.o, c.obj),
                   SpawnEjecta(BurstCount(c.o, c.obj)))
    ELSE [st EXCEPT !.objs = [st.objs EXCEPT ![i] = c.o, ![j] = c.obj]]

\* The record of the scan (history): the pair (i, j) as the scan found it (o,
\* obj) and as CollideWith left it (c).
Logged(st, i, j, c, after) ==
    [after EXCEPT !.pairs = Append(@, [i |-> i, j |-> j,
                                       o |-> st.objs[i], obj |-> st.objs[j],
                                       c |-> c])]

\* the pair (i, j) of the scan, c what CollideWith returned for it
Collided(st, i, j, c) == Logged(st, i, j, c, AfterCollide(st, i, j, c))

\* One pair of the scan of World.handleCollisions, lines 134-145: st.objs are
\* the bodies as the scan has left them so far.
CollidePair(st, i, j, merge) ==
    Collided(st, i, j, CollideWith(st.objs[i], st.objs[j], restitution, merge))

RECURSIVE ScanPairs(_, _, _, _)
ScanPairs(st, i, j, merge) ==
    IF i > Len(st.objs) THEN st
    ELSE IF j > Len(st.objs) THEN ScanPairs(st, i + 1, i + 2, merge)
    ELSE ScanPairs(CollidePair(st, i, j, merge), i, j + 1, merge)

\* World.handleCollisions, lines 149-151: the removals after the scan
ApplyRemovals(st) ==
    [objs |-> RemoveAll(st.objs, st.toRemove, 1),
     ejecta |-> st.ejecta,
     merges |-> st.merges,
     pairs |-> st.pairs,
     scanned |-> IdsOf(st.objs),
     toRemove |-> st.toRemove]

\* World.handleCollisions: the scan, then the removals
handleCollisions(objs, ejecta, merge) ==
    ApplyRemovals(ScanPairs([objs |-> objs, toRemove |-> <<>>,
                             ejecta |-> ejecta, merges |-> <<>>,
                             pairs |-> <<>>], 1, 2, merge))

\* IsFar with twice the cull distance
IsFarTwice(o) ==
    ~o.pinned /\ FartherThan(o.x - (screenWidth * Scale) \div 2,
                             o.y - (screenHeight * Scale) \div 2,
                             2 * cullDistance)

\* IsFar that does not spare the fixed bodies
IsFarAlsoPinned(o) ==
    FartherThan(o.x - (screenWidth * Scale) \div 2,
                o.y - (screenHeight * Scale) \div 2, cullDistance)

\* World.cullDistantObjects, lines 196-205: o is not fixed and beyond the
\* cull distance from the screen center
IsFar(o) ==
    ~o.pinned /\ FartherThan(o.x - (screenWidth * Scale) \div 2,
                             o.y - (screenHeight * Scale) \div 2, cullDistance)

\* cullDistantObjects that stops after the first body it removes
cullFirstDistant(objs) ==
    LET far == IdsOf(SelectSeq(objs, IsFar))
    IN  RemoveAll(objs, IF far = <<>> THEN far ELSE <<far[1]>>, 1)

\* World.cullDistantObjects
cullDistantObjects(objs) ==
    RemoveAll(objs, IdsOf(SelectSeq(objs, IsFar)), 1)

\* World.StepPhysics, phase 1
MoveAll(objs) ==
    [i \in 1..Len(objs) |->
        IF objs[i].pinned THEN objs[i] ELSE UpdatePositionVerlet(objs[i])]

\* the friction of phase 3, lines 95-98
Slow(o, friction) ==
    IF friction
    THEN [o EXCEPT !.velocityX = Quot(@ * (1000 - frictionCoeff), 1000),
                   !.velocityY = Quot(@ * (1000 - frictionCoeff), 1000)]
    ELSE o

\* phase 3 for one body, a its new acceleration
Accelerate(o, a, friction) ==
    Slow(UpdateVelocityVerlet(o, a[1], a[2]), friction)

\* World.StepPhysics, phases 2 and 3 on the moved bodies
AccelerateAll(moved, friction) ==
    [i \in 1..Len(moved) |->
        IF moved[i].pinned THEN moved[i]
        ELSE Accelerate(moved[i], CalculateAcceleration(moved[i], moved),
                        friction)]

\* Integrate that computes the accelerations before the positions advance
IntegrateOnOldPositions(objs, friction) ==
    [i \in 1..Len(objs) |->
        IF objs[i].pinned THEN objs[i]
        ELSE Accelerate(UpdatePositionVerlet(objs[i]),
                        CalculateAcceleration(objs[i], objs), friction)]

\* World.StepPhysics, phases 1 to 3: the integrator
Integrate(objs, friction) == AccelerateAll(MoveAll(objs), friction)

\* World.StepPhysics, lines 107-114: the screen boundary
BounceAll(c, bounce) ==
    [c EXCEPT !.objs = [i \in 1..Len(c.objs) |->
                          IF bounce /\ ~c.objs[i].pinned
                          THEN BounceOnScreenCollision(c.objs[i])
                          ELSE c.objs[i]]]

\* the bodies as the collision phase found them, kept beside its result c
\* (history)
WithIntegrated(integrated, c) ==
    [objs |-> c.objs, ejecta |-> c.ejecta, merges |-> c.merges,
     pairs |-> c.pairs, scanned |-> c.scanned, toRemove |-> c.toRemove,
     integrated |-> integrated, collided |-> c.objs]

\* World.StepPhysics, lines 101-104, on the bodies the integrator left
CollideIntegrated(integrated, ejecta, merge) ==
    WithIntegrated(integrated, handleCollisions(integrated, ejecta, merge))

\* BeforeCull that culls the distant bodies before the collision scan
BeforeCullCullingFirst(objs, ejecta, merge, friction, bounce) ==
    BounceAll(CollideIntegrated(cullDistantObjects(Integrate(objs, friction)),
                                ejecta, merge),
              bounce)

\* World.StepPhysics, up to the culling: integration, collisions, screen
\* bounce.  bounceOnParticleCollision is set by newWorld and never cleared, so
\* handleCollisions always runs.
BeforeCull(objs, ejecta, merge, friction, bounce) ==
    BounceAll(CollideIntegrated(Integrate(objs, friction), ejecta, merge),
              bounce)

RotateAll(objs) == [i \in 1..Len(objs) |-> UpdateRotation(objs[i])]

\* World.StepPhysics, lines 116-125, on the result b of the phases before
AfterCull(b) ==
    [objs |-> RotateAll(cullDistantObjects(b.objs)),
     ejecta |-> updateEjecta(b.ejecta),
     merges |-> b.merges,
     atCull |-> b.objs,
     pairs |-> b.pairs,
     scanned |-> b.scanned,
     toRemove |-> b.toRemove,
     integrated |-> b.integrated,
     collided |-> b.collided,
     spawned |-> b.ejecta]

\* World.StepPhysics.  Beside the bodies and the ejecta it leaves, the result
\* keeps the history of the call: its merges, the bodies as the culling found
\* them (atCull), the pairs of the scan (pairs), the identities
\* in the store when the scan ended (scanned), the removals the scan
\* collected (toRemove) and the bodies as the integrator left them
\* (integrated).
StepPhysics(objs, ejecta, merge, friction, bounce) ==
    AfterCull(BeforeCull(objs, ejecta, merge, friction, bounce))

----------------------------------------------------------------------------
\* The game modes (challenge.go, target.go).  The scores and the timers of
\* the result screens (orbitCount, bestScores, launches, bestStars,
\* resultTimer) are display only and not modelled.

\* newChallenge: levels, in world units
levels ==
    <<[Objects |-> <<[X |-> 800, Y |-> 600, Radius |-> 40, Pinned |-> TRUE]>>,
       OrbitZoneRadius |-> 500],
      [Objects |-> <<[X |-> 500, Y |-> 600, Radius |-> 30, Pinned |-> TRUE],
                     [X |-> 1100, Y |-> 600, Radius |-> 30, Pinned |-> TRUE]>>,
       OrbitZoneRadius |-> 600],
      [Objects |-> <<[X |-> 800, Y |-> 300, Radius |-> 25, Pinned |-> TRUE],
                     [X |-> 500, Y |-> 800, Radius |-> 25, Pinned |-> TRUE],
                     [X |-> 1100, Y |-> 800, Radius |-> 25, Pinned |-> TRUE]>>,
       OrbitZoneRadius |-> 700],
      [Objects |-> <<[X |-> 800, Y |-> 600, Radius |-> 50, Pinned |-> TRUE],
                     [X |-> 1000, Y |-> 600, Radius |-> 12, Pinned |-> TRUE]>>,
       OrbitZoneRadius |-> 500]>>

\* newChallenge.  currentLevel counts from 0 as in the code.
newChallenge ==
    [active |-> FALSE, state |-> "Aiming", currentLevel |-> 0, orbiter |-> Nil,
     orbitCenter |-> <<0, 0>>, orbitZoneRadius |-> 0,
     savedObjects |-> <<>>, savedMerge |-> FALSE]

\* newTargetPractice: levels, in world units
targetLevels ==
    <<[Objects |-> <<[X |-> 800, Y |-> 600, Radius |-> 30, Pinned |-> TRUE]>>,
       Targets |-> <<[X |-> 800, Y |-> 300, Radius |-> 40, Hit |-> FALSE]>>],
      [Objects |-> <<[X |-> 800, Y |-> 600, Radius |-> 40, Pinned |-> TRUE]>>,
       Targets |-> <<[X |-> 400, Y |-> 300, Radius |-> 35, Hit |-> FALSE],
                     [X |-> 1200, Y |-> 300, Radius |-> 35, Hit |-> FALSE]>>],
      [Objects |-> <<[X |-> 600, Y |-> 600, Radius |-> 25, Pinned |-> TRUE],
                     [X |-> 1000, Y |-> 600, Radius |-> 25, Pinned |-> TRUE]>>,
       Targets |-> <<[X |-> 800, Y |-> 400, Radius |-> 30, Hit |-> FALSE],
                     [X |-> 800, Y |-> 800, Radius |-> 30, Hit |-> FALSE],
                     [X |-> 500, Y |-> 300, Radius |-> 30, Hit |-> FALSE]>>],
      [Objects |-> <<[X |-> 800, Y |-> 600, Radius |-> 35, Pinned |-> TRUE]>>,
       Targets |-> <<[X |-> 800, Y |-> 300, Radius |-> 30, Hit |-> FALSE],
                     [X |-> 1100, Y |-> 600, Radius |-> 30, Hit |-> FALSE],
                     [X |-> 800, Y |-> 900, Radius |-> 30, Hit |-> FALSE],
                     [X |-> 500, Y |-> 600, Radius |-> 30, Hit |-> FALSE]>>]>>

\* newTargetPractice
newTargetPractice ==
    [active |-> FALSE, state |-> "Aiming", currentLevel |-> 0,
     projectile |-> Nil, targets |-> <<>>,
     savedObjects |-> <<>>, savedMerge |-> FALSE]

\* obj := world.AddObject(lo.X, lo.Y, lo.Radius); obj.pinned = lo.Pinned
AddLevelObject(objs, id, lo) ==
    [AddObject(objs, id, lo.X * Scale, lo.Y * Scale, lo.Radius)
         EXCEPT ![Len(objs) + 1].pinned = lo.Pinned]

\* the loop of loadLevel over level.Objects, from the k-th on
RECURSIVE AddLevelObjects(_, _, _, _)
AddLevelObjects(objs, id, los, k) ==
    IF k > Len(los) THEN objs
    ELSE AddLevelObjects(AddLevelObject(objs, id, los[k]), id + 1, los, k + 1)

RECURSIVE SumOf(_, _)
SumOf(f, k) == IF k = 0 THEN 0 ELSE f[k] + SumOf(f, k - 1)

\* the centroid of the level objects, in 1/Scale units
Centroid(los) ==
    <<Quot(SumOf([k \in 1..Len(los) |-> los[k].X * Scale], Len(los)), Len(los)),
      Quot(SumOf([k \in 1..Len(los) |-> los[k].Y * Scale], Len(los)), Len(los))>>

\* delta added to the level index, wrapped into 0 .. n-1
WrapLevel(current, delta, n) ==
    IF current + delta < 0 THEN n - 1
    ELSE IF current + delta >= n THEN 0
    ELSE current + delta

\* the loop of trackOrbit and trackProjectile over world.objects: some fixed
\* body other than p touches p
HitsPlanet(p, objs) ==
    \E i \in 1..Len(objs) :
        objs[i].id # p.id /\ objs[i].pinned /\ Touching(p, objs[i])

\* The Object a pointer of a game mode refers to, after a step with result s.
\* A body the step removed from the store keeps the fields it had when it was
\* removed.
Deref(id, s) ==
    IF id \in Ids(s.objs) THEN Body(s.objs, id) ELSE Body(s.atCull, id)

\* loadLevel that leaves the level in the saved collection as well, as it
\* would if Enter saved the slice of the world instead of a copy of it
ChallengeLoadLevelAliased(c, id) ==
    [c |-> [c EXCEPT !.orbitCenter = Centroid(levels[c.currentLevel + 1].Objects),
                     !.orbitZoneRadius = levels[c.currentLevel + 1].OrbitZoneRadius,
                     !.orbiter = Nil,
                     !.state = "Aiming",
                     !.savedObjects =
                         AddLevelObjects(<<>>, id,
                                         levels[c.currentLevel + 1].Objects, 1)],
     objs |-> AddLevelObjects(<<>>, id, levels[c.currentLevel + 1].Objects, 1)]

\* Challenge.loadLevel: the level is built in the emptied store from identity
\* id on
ChallengeLoadLevel(c, id) ==
    [c |-> [c EXCEPT !.orbitCenter = Centroid(levels[c.currentLevel + 1].Objects),
                     !.orbitZoneRadius = levels[c.currentLevel + 1].OrbitZoneRadius,
                     !.orbiter = Nil,
                     !.state = "Aiming"],
     objs |-> AddLevelObjects(<<>>, id, levels[c.currentLevel + 1].Objects, 1)]

\* endRound that removes the orbiter from the store but keeps tracking it
endRoundKeepingOrbiter(c, objs, state) ==
    [c |-> [c EXCEPT !.state = state],
     objs |-> IF c.orbiter # Nil THEN RemoveObject(objs, c.orbiter) ELSE objs]

\* Challenge.endRound
endRound(c, objs, state) ==
    [c |-> [c EXCEPT !.state = state, !.orbiter = Nil],
     objs |-> IF c.orbiter # Nil THEN RemoveObject(objs, c.orbiter) ELSE objs]

\* Challenge.trackOrbit, o the Object c.orbiter points to
trackOrbit(c, objs, o) ==
    IF HitsPlanet(o, objs) THEN endRound(c, objs, "Crashed")
    ELSE IF FartherThan(o.x - c.orbitCenter[1], o.y - c.orbitCenter[2],
                        c.orbitZoneRadius)
    THEN endRound(c, objs, "Escaped")
    ELSE [c |-> c, objs |-> objs]

\* Challenge.Update after a step with result s
ChallengeUpdate(c, s) ==
    IF ~c.active \/ c.state # "Orbiting" THEN [c |-> c, objs |-> s.objs]
    ELSE IF c.orbiter = Nil
    THEN [c |-> [c EXCEPT !.state = "Aiming"], objs |-> s.objs]
    ELSE trackOrbit(c, s.objs, Deref(c.orbiter, s))

\* TargetPractice.loadLevel.  The projectile is not in the emptied store, so
\* its RemoveObject of lines 139-141 removes nothing.
TargetLoadLevel(t, id) ==
    [t |-> [t EXCEPT !.targets = targetLevels[t.currentLevel + 1].Targets,
                     !.projectile = Nil,
                     !.state = "Aiming"],
     objs |-> AddLevelObjects(<<>>, id,
                              targetLevels[t.currentLevel + 1].Objects, 1)]

\* the projectile p is inside the target zone z
InZone(p, z) ==
    /\ Abs(p.x - z.X * Scale) < z.Radius * Scale
    /\ Abs(p.y - z.Y * Scale) < z.Radius * Scale
    /\ (p.x - z.X * Scale) * (p.x - z.X * Scale)
           + (p.y - z.Y * Scale) * (p.y - z.Y * Scale)
           < z.Radius * Scale * z.Radius * Scale

\* trackProjectile, lines 203-217: the zones the projectile p is in are hit
MarkHits(targets, p) ==
    [k \in 1..Len(targets) |->
        [targets[k] EXCEPT !.Hit = targets[k].Hit \/ InZone(p, targets[k])]]

\* TargetPractice.removeProjectile
removeProjectile(t, objs) ==
    [t |-> [t EXCEPT !.projectile = Nil, !.state = "Aiming"],
     objs |-> IF t.projectile # Nil THEN RemoveObject(objs, t.projectile)
              ELSE objs]

\* TargetPractice.completeLevel
completeLevel(t, objs) ==
    [t |-> [t EXCEPT !.projectile = Nil, !.state = "Complete"],
     objs |-> IF t.projectile # Nil THEN RemoveObject(objs, t.projectile)
              ELSE objs]

\* TargetPractice.trackProjectile, t with the hits marked, p the Object
\* t.projectile points to
trackProjectile(t, objs, p) ==
    IF \A k \in 1..Len(t.targets) : t.targets[k].Hit THEN completeLevel(t, objs)
    ELSE IF HitsPlanet(p, objs) THEN removeProjectile(t, objs)
    ELSE IF FartherThan(p.x - (screenWidth * Scale) \div 2,
                        p.y - (screenHeight * Scale) \div 2, cullDistance)
    THEN removeProjectile(t, objs)
    ELSE [t |-> t, objs |-> objs]

\* the hits of trackProjectile, then the rest of it
MarkAndTrack(t, objs, p) ==
    trackProjectile([t EXCEPT !.targets = MarkHits(t.targets, p)], objs, p)

\* TargetPractice.Update after a step with result s, objs the store as
\* Challenge.Update left it
TargetUpdate(t, objs, s) ==
    IF ~t.active \/ t.state # "Flying" THEN [t |-> t, objs |-> objs]
    ELSE IF t.projectile = Nil
    THEN [t |-> [t EXCEPT !.state = "Aiming"], objs |-> objs]
    ELSE MarkAndTrack(t, objs, Deref(t.projectile, s))

----------------------------------------------------------------------------
\* The engine as its callers drive it: the public operations of World

VARIABLES
    objects,                  \* world.objects
    ejecta,                   \* world.ejecta
    mergeOnCollision,         \* world.mergeOnCollision
    frictionEnabled,          \* world.frictionEnabled
    bounceOnScreenCollision,  \* world.bounceOnScreenCollision
    nextId,                   \* the identity the next new Object gets
    ticks,                    \* StepPhysics calls so far
    last,                     \* the last call on the world, what it was given
                              \* and what it returned (history)
    challenge,                \* the Challenge of the game
    target,                   \* the TargetPractice of the game
    input                     \* the InputState of the game: what the mouse
                              \* holds and what is selected

vars == <<objects, ejecta, mergeOnCollision, frictionEnabled,
          bounceOnScreenCollision, nextId, ticks, last, challenge, target,
          input>>

\* the two game modes
modes == <<challenge, target>>

\* the inputs of the model, in 1/Scale units: the screen center, a point 10
\* away from it, and a point just beyond the cull distance
Positions == {<<800 * Scale, 600 * Scale>>, <<806 * Scale, 608 * Scale>>,
              <<5801 * Scale, 600 * Scale>>}
Radii == {5, 10}
LaunchVelocities == {<<-2 * Scale, 0>>}
Queries == {<<800 * Scale, 600 * Scale>>, <<825 * Scale, 600 * Scale>>}
\* the radius handleSelection and handleMouse pass to FindObject
pickRadius == 15

NoCall == [op |-> "none"]

\* newWorld()
\* newInputState: nothing aimed, dragged or selected
newInputState ==
    [aiming |-> FALSE, aimStartX |-> 0, aimStartY |-> 0,
     dragging |-> FALSE, dragObj |-> Nil, selectedObj |-> Nil]

Init ==
    /\ objects = <<>>
    /\ ejecta = <<>>
    /\ mergeOnCollision = FALSE
    /\ frictionEnabled = FALSE
    /\ bounceOnScreenCollision = FALSE
    /\ nextId = 1
    /\ ticks = 0
    /\ last = NoCall
    /\ challenge = newChallenge
    /\ target = newTargetPractice
    /\ input = newInputState

\* world.AddObject(x, y, radius)
Create(x, y, radius) ==
    /\ objects' = AddObject(objects, nextId, x, y, radius)
    /\ nextId' = nextId + 1
    /\ UNCHANGED input
    /\ last' = [op |-> "create", before |-> objects, id |-> nextId,
                x |-> x, y |-> y, radius |-> radius]
    /\ UNCHANGED <<ejecta, mergeOnCollision, frictionEnabled,
                   bounceOnScreenCollision, ticks,
                   challenge, target>>

\* obj := world.AddObject(x, y, radius); obj.velocityX = vx; obj.velocityY = vy
Thrown(objs, id, x, y, radius, v) ==
    [AddObject(objs, id, x, y, radius)
         EXCEPT ![Len(objs) + 1].velocityX = v[1],
                ![Len(objs) + 1].velocityY = v[2]]

\* The slingshot release of handleMouse: AddObject, then the launch velocity
\* is written to the new body.
Launch(x, y, radius, v) ==
    /\ objects' = Thrown(objects, nextId, x, y, radius, v)
    /\ nextId' = nextId + 1
    /\ UNCHANGED input
    /\ last' = NoCall
    /\ UNCHANGED <<ejecta, mergeOnCollision, frictionEnabled,
                   bounceOnScreenCollision, ticks,
                   challenge, target>>

\* world.RemoveObject(obj), for any identity, in the store or not
Remove(id) ==
    /\ objects' = RemoveObject(objects, id)
    /\ UNCHANGED input
    /\ last' = [op |-> "remove", before |-> objects, id |-> id]
    /\ UNCHANGED <<ejecta, mergeOnCollision, frictionEnabled,
                   bounceOnScreenCollision, nextId, ticks,
                   challenge, target>>

\* world.FindObject(wx, wy, 15)
FindNear(wx, wy) ==
    /\ UNCHANGED input
    /\ last' = [op |-> "find", before |-> objects, wx |-> wx, wy |-> wy,
                obj |-> FindObject(objects, wx, wy, pickRadius)]
    /\ UNCHANGED <<objects, ejecta, mergeOnCollision, frictionEnabled,
                   bounceOnScreenCollision, nextId, ticks,
                   challenge, target>>

\* obj.pinned = !obj.pinned (Space on the selected body)
TogglePinned(id) ==
    /\ id \in Ids(objects)
    /\ LET i == IndexOf(objects, id, 1)
       IN  objects' = [objects EXCEPT ![i].pinned = ~@]
    /\ UNCHANGED input
    /\ last' = NoCall
    /\ UNCHANGED <<ejecta, mergeOnCollision, frictionEnabled,
                   bounceOnScreenCollision, nextId, ticks,
                   challenge, target>>

ToggleMerge ==
    /\ mergeOnCollision' = ~mergeOnCollision
    /\ UNCHANGED input
    /\ last' = NoCall
    /\ UNCHANGED <<objects, ejecta, frictionEnabled, bounceOnScreenCollision,
                   nextId, ticks,
                   challenge, target>>

ToggleFriction ==
    /\ frictionEnabled' = ~frictionEnabled
    /\ UNCHANGED input
    /\ last' = NoCall
    /\ UNCHANGED <<objects, ejecta, mergeOnCollision, bounceOnScreenCollision,
                   nextId, ticks,
                   challenge, target>>

ToggleBounce ==
    /\ bounceOnScreenCollision' = ~bounceOnScreenCollision
    /\ UNCHANGED input
    /\ last' = NoCall
    /\ UNCHANGED <<objects, ejecta, mergeOnCollision, frictionEnabled,
                   nextId, ticks,
                   challenge, target>>

\* what one StepPhysics call leaves, s its result
Stepped(s) ==
    /\ objects' = s.objs
    /\ ejecta' = s.ejecta
    /\ UNCHANGED input
    /\ last' = [op |-> "step", before |-> objects, merges |-> s.merges,
                atCull |-> s.atCull, pairs |-> s.pairs,
                scanned |-> s.scanned, toRemove |-> s.toRemove,
                integrated |-> s.integrated, ejectaBefore |-> ejecta,
                collided |-> s.collided, spawned |-> s.spawned]

\* world.StepPhysics()
Step ==
    /\ Stepped(StepPhysics(objects, ejecta, mergeOnCollision, frictionEnabled,
                           bounceOnScreenCollision))
    /\ ticks' = ticks + 1
    /\ UNCHANGED <<mergeOnCollision, frictionEnabled, bounceOnScreenCollision,
                   nextId,
                   challenge, target>>

Next ==
    \/ /\ nextId <= MaxBodies
       /\ \E p \in Positions, r \in Radii : Create(p[1], p[2], r)
    \/ /\ nextId <= MaxBodies
       /\ \E p \in Positions, r \in Radii, v \in LaunchVelocities :
               Launch(p[1], p[2], r, v)
    \/ \E id \in 1..MaxBodies : Remove(id)
    \/ \E q \in Queries : FindNear(q[1], q[2])
    \/ \E id \in 1..MaxBodies : TogglePinned(id)
    \/ ToggleMerge
    \/ ToggleFriction
    \/ ToggleBounce
    \/ ticks < MaxTicks /\ Step

Spec == Init /\ [][Next]_vars

----------------------------------------------------------------------------
\* The game as the input layer and Game.Update drive it.  The sandbox input
\* is handled only while no mode is active (input.go, lines 72-86); the
\* handler that switches target practice is taken to mirror the one of the
\* challenge.

MaxGameIds == 8
MaxLevelObjects == 3
GamePositions == {<<806 * Scale, 608 * Scale>>}
GameRadius == 10
\* where the slingshot starts and the velocity it gives: next to the planet
\* of the first levels and flying into it, in the target zone of the first
\* level, and beyond the cull distance
GameLaunches == {<<800 * Scale, 552 * Scale, <<0, 4 * Scale>>>>,
                 <<800 * Scale, 300 * Scale, <<0, 4 * Scale>>>>,
                 <<5801 * Scale, 600 * Scale, <<0, 4 * Scale>>>>}
orbiterRadius == 5

Sandbox == ~challenge.active /\ ~target.active

\* what a level load of the challenge leaves, r its result
ChallengeLoaded(r) ==
    /\ challenge' = r.c
    /\ objects' = r.objs
    /\ nextId' = nextId + Len(r.objs)

\* Challenge.Enter
ChallengeEnter ==
    /\ ChallengeLoaded(ChallengeLoadLevel(
           [challenge EXCEPT !.savedObjects = objects,
                             !.savedMerge = mergeOnCollision,
                             !.active = TRUE,
                             !.state = "Aiming",
                             !.orbiter = Nil], nextId))
    /\ mergeOnCollision' = TRUE
    /\ UNCHANGED input
    /\ last' = [op |-> "enter", from |-> challenge.state]
    /\ UNCHANGED <<ejecta, frictionEnabled, bounceOnScreenCollision, ticks,
                   target>>

\* Challenge.Exit
ChallengeExit ==
    /\ challenge' = [challenge EXCEPT !.active = FALSE, !.orbiter = Nil,
                                      !.savedObjects = <<>>]
    /\ objects' = challenge.savedObjects
    /\ mergeOnCollision' = challenge.savedMerge
    /\ UNCHANGED input
    /\ last' = [op |-> "exit", before |-> objects, merge |-> mergeOnCollision]
    /\ UNCHANGED <<ejecta, frictionEnabled, bounceOnScreenCollision, nextId,
                   ticks, target>>

\* Challenge.ChangeLevel
ChallengeChangeLevel(delta) ==
    /\ IF challenge.state # "Aiming"
       THEN UNCHANGED <<challenge, objects, nextId>>
       ELSE ChallengeLoaded(ChallengeLoadLevel(
                [challenge EXCEPT !.currentLevel =
                                      WrapLevel(@, delta, Len(levels))],
                nextId))
    /\ UNCHANGED input
    /\ last' = [op |-> "level", from |-> challenge.state]
    /\ UNCHANGED <<ejecta, mergeOnCollision, frictionEnabled,
                   bounceOnScreenCollision, ticks, target>>

\* Challenge.LaunchOrbiter
LaunchOrbiter(x, y, v) ==
    /\ IF challenge.state # "Aiming"
       THEN UNCHANGED <<challenge, objects, nextId>>
       ELSE /\ objects' = Thrown(objects, nextId, x, y, orbiterRadius, v)
            /\ challenge' = [challenge EXCEPT !.orbiter = nextId,
                                              !.state = "Orbiting"]
            /\ nextId' = nextId + 1
    /\ UNCHANGED input
    /\ last' = [op |-> "launch", from |-> challenge.state]
    /\ UNCHANGED <<ejecta, mergeOnCollision, frictionEnabled,
                   bounceOnScreenCollision, ticks, target>>

\* Challenge.RetryLevel
ChallengeRetryLevel ==
    /\ IF challenge.state # "Crashed" /\ challenge.state # "Escaped"
       THEN UNCHANGED <<challenge, objects, nextId>>
       ELSE ChallengeLoaded(ChallengeLoadLevel(challenge, nextId))
    /\ UNCHANGED input
    /\ last' = [op |-> "retry", from |-> challenge.state]
    /\ UNCHANGED <<ejecta, mergeOnCollision, frictionEnabled,
                   bounceOnScreenCollision, ticks, target>>

\* what a level load of target practice leaves, r its result
TargetLoaded(r) ==
    /\ target' = r.t
    /\ objects' = r.objs
    /\ nextId' = nextId + Len(r.objs)

\* TargetPractice.Enter
TargetEnter ==
    /\ TargetLoaded(TargetLoadLevel(
           [target EXCEPT !.savedObjects = objects,
                          !.savedMerge = mergeOnCollision,
                          !.active = TRUE,
                          !.projectile = Nil], nextId))
    /\ mergeOnCollision' = FALSE
    /\ UNCHANGED input
    /\ last' = NoCall
    /\ UNCHANGED <<ejecta, frictionEnabled, bounceOnScreenCollision, ticks,
                   challenge>>

\* TargetPractice.Exit: the projectile is removed from the store, then the
\* store is replaced by the saved one
TargetExit ==
    /\ target' = [target EXCEPT !.active = FALSE, !.projectile = Nil,
                                !.savedObjects = <<>>]
    /\ objects' = target.savedObjects
    /\ mergeOnCollision' = target.savedMerge
    /\ UNCHANGED input
    /\ last' = [op |-> "exit", before |-> objects, merge |-> mergeOnCollision]
    /\ UNCHANGED <<ejecta, frictionEnabled, bounceOnScreenCollision, nextId,
                   ticks, challenge>>

\* TargetPractice.ChangeLevel
TargetChangeLevel(delta) ==
    /\ IF target.state = "Flying"
       THEN UNCHANGED <<target, objects, nextId>>
       ELSE TargetLoaded(TargetLoadLevel(
                [target EXCEPT !.currentLevel =
                                   WrapLevel(@, delta, Len(targetLevels))],
                nextId))
    /\ UNCHANGED input
    /\ last' = NoCall
    /\ UNCHANGED <<ejecta, mergeOnCollision, frictionEnabled,
                   bounceOnScreenCollision, ticks, challenge>>

\* the store without the previous projectile, lines 168-170
WithoutProjectile(t, objs) ==
    IF t.projectile # Nil THEN RemoveObject(objs, t.projectile) ELSE objs

\* TargetPractice.LaunchProjectile
LaunchProjectile(x, y, v) ==
    /\ IF target.state # "Aiming"
       THEN UNCHANGED <<target, objects, nextId>>
       ELSE /\ objects' = Thrown(WithoutProjectile(target, objects), nextId,
                                 x, y, orbiterRadius, v)
            /\ target' = [target EXCEPT !.projectile = nextId,
                                        !.state = "Flying"]
            /\ nextId' = nextId + 1
    /\ UNCHANGED input
    /\ last' = NoCall
    /\ UNCHANGED <<ejecta, mergeOnCollision, frictionEnabled,
                   bounceOnScreenCollision, ticks, challenge>>

\* TargetPractice.RetryLevel
TargetRetryLevel ==
    /\ TargetLoaded(TargetLoadLevel(target, nextId))
    /\ UNCHANGED input
    /\ last' = NoCall
    /\ UNCHANGED <<ejecta, mergeOnCollision, frictionEnabled,
                   bounceOnScreenCollision, ticks, challenge>>

\* the end of one round of the loop of Game.Update: s the result of
\* StepPhysics, cu of challenge.Update, tu of target.Update
Ticked(s, cu, tu) ==
    /\ UNCHANGED input
    /\ last' = [op |-> "tick", pairs |-> s.pairs, challenge |-> challenge]
    /\ objects' = tu.objs
    /\ ejecta' = s.ejecta
    /\ challenge' = cu.c
    /\ target' = tu.t

AfterChallengeUpdate(s, cu) == Ticked(s, cu, TargetUpdate(target, cu.objs, s))

AfterStepPhysics(s) == AfterChallengeUpdate(s, ChallengeUpdate(challenge, s))

\* Game.Update, lines 37-39: StepPhysics, challenge.Update, target.Update
Tick ==
    /\ AfterStepPhysics(StepPhysics(objects, ejecta, mergeOnCollision,
                                    frictionEnabled, bounceOnScreenCollision))
    /\ ticks' = ticks + 1
    /\ UNCHANGED <<mergeOnCollision, frictionEnabled, bounceOnScreenCollision,
                   nextId>>

\* a level load takes at most MaxLevelObjects identities
RoomForLevel == nextId + MaxLevelObjects <= MaxGameIds + 1

GameNext ==
    \/ /\ Sandbox /\ nextId <= MaxGameIds /\ Len(objects) < MaxBodies
       /\ \E p \in GamePositions : Create(p[1], p[2], GameRadius)
    \/ Sandbox /\ \E id \in Ids(objects) : Remove(id)
    \/ Sandbox /\ ToggleMerge
    \/ Sandbox /\ RoomForLevel /\ ChallengeEnter
    \/ challenge.active /\ ChallengeExit
    \/ /\ challenge.active /\ RoomForLevel
       /\ \E delta \in {-1, 1} : ChallengeChangeLevel(delta)
    \/ /\ challenge.active /\ nextId <= MaxGameIds
       /\ \E l \in GameLaunches : LaunchOrbiter(l[1], l[2], l[3])
    \/ challenge.active /\ RoomForLevel /\ ChallengeRetryLevel
    \/ Sandbox /\ RoomForLevel /\ TargetEnter
    \/ target.active /\ TargetExit
    \/ /\ target.active /\ RoomForLevel
       /\ \E delta \in {-1, 1} : TargetChangeLevel(delta)
    \/ /\ target.active /\ nextId <= MaxGameIds
       /\ \E l \in GameLaunches : LaunchProjectile(l[1], l[2], l[3])
    \/ target.active /\ RoomForLevel /\ TargetRetryLevel
    \/ ticks < MaxTicks /\ Tick

GameSpec == Init /\ [][GameNext]_vars

----------------------------------------------------------------------------
\* The collision phase with up to three bodies that overlap: three points on
\* a line, 10 and 15 apart, so that bodies can share a point, overlap all or
\* overlap in a chain whose ends do not touch, and
\* a launch velocity that gives relative speeds below and above the one at
\* which a burst reaches 16 particles.  The bodies are placed, fixed and
\* the merge mode is chosen before the first step.

MaxColliders == 3
CollisionPositions == {<<800 * Scale, 600 * Scale>>, <<806 * Scale, 608 * Scale>>,
                       <<815 * Scale, 620 * Scale>>}
CollisionVelocities == {<<-9 * Scale, 0>>}

CollisionNext ==
    \/ /\ nextId <= MaxColliders /\ ticks = 0
       /\ \E p \in CollisionPositions, r \in Radii : Create(p[1], p[2], r)
    \/ /\ nextId <= MaxColliders /\ ticks = 0
       /\ \E p \in CollisionPositions, r \in Radii, v \in CollisionVelocities :
               Launch(p[1], p[2], r, v)
    \/ ticks = 0 /\ \E id \in 1..MaxColliders : TogglePinned(id)
    \/ ticks = 0 /\ ToggleMerge
    \/ ticks < MaxTicks /\ Step

CollisionSpec == Init /\ [][CollisionNext]_vars

----------------------------------------------------------------------------
\* The ejecta over their whole life: two bodies that merge at some step, and
\* enough steps after it for the burst to age and disappear.

MaxAgingTicks == 68

AgingNext ==
    \/ /\ nextId <= MaxBodies
       /\ \E p \in CollisionPositions, r \in Radii : Create(p[1], p[2], r)
    \/ ToggleMerge
    \/ ticks < MaxAgingTicks /\ Step

AgingSpec == Init /\ [][AgingNext]_vars

----------------------------------------------------------------------------
\* The solar system of main.go: setupSolarSystem puts a fixed sun of mass
\* 10000 at the screen center and planets around it, each with the speed
\* sqrt(G * M_sun / r) along the tangent, before the first step.  Here a
\* planet stands at angle 0, to the right of the sun, and moves up.

sunRadius == 30
sunMass == 10000
\* the distances and radii of Mercury, Venus and Earth
OrbitDistances == {80, 130, 190}
OrbitRadii == {3, 5}
MaxOrbitBodies == 3
MaxOrbitTicks == 15

\* v := math.Sqrt(gravitationalConstant * sunMass / p.distance), in 1/Scale
\* units
orbitSpeed(distance) ==
    ISqrt((GNum * sunMass * Scale * Scale) \div (GDen * distance))

\* sun := world.AddObject(cx, cy, 30); sun.pinned = true; sun.mass = 10000
PlaceSun ==
    /\ objects = <<>>
    /\ objects' = [AddObject(objects, nextId, (screenWidth * Scale) \div 2,
                             (screenHeight * Scale) \div 2, sunRadius)
                       EXCEPT ![1].pinned = TRUE, ![1].mass = sunMass]
    /\ nextId' = nextId + 1
    /\ UNCHANGED input
    /\ last' = NoCall
    /\ UNCHANGED <<ejecta, mergeOnCollision, frictionEnabled,
                   bounceOnScreenCollision, ticks, challenge, target>>

\* one round of the loop of setupSolarSystem over the planets, at angle 0
PlacePlanet(distance, radius) ==
    /\ objects # <<>>
    /\ objects' = Thrown(objects, nextId,
                         (screenWidth * Scale) \div 2 + distance * Scale,
                         (screenHeight * Scale) \div 2, radius,
                         <<0, -orbitSpeed(distance)>>)
    /\ nextId' = nextId + 1
    /\ UNCHANGED input
    /\ last' = NoCall
    /\ UNCHANGED <<ejecta, mergeOnCollision, frictionEnabled,
                   bounceOnScreenCollision, ticks, challenge, target>>

OrbitNext ==
    \/ ticks = 0 /\ PlaceSun
    \/ /\ ticks = 0 /\ nextId <= MaxOrbitBodies
       /\ \E distance \in OrbitDistances, r \in OrbitRadii :
               PlacePlanet(distance, r)
    \/ ticks = 0 /\ \E id \in 1..MaxOrbitBodies : TogglePinned(id)
    \/ ticks < MaxOrbitTicks /\ Step

OrbitSpec == Init /\ [][OrbitNext]_vars

----------------------------------------------------------------------------
\* Object.CollideWith called on two bodies of the store with any restitution
\* from 0 to 1, in tenths: the method changes the two bodies in place.

Restitutions == 0..10

\* objects[i].CollideWith(objects[j], e, mergeOnCollision), c what it leaves
Collide(i, j, e, c) ==
    /\ objects' = [objects EXCEPT ![i] = c.o, ![j] = c.obj]
    /\ UNCHANGED input
    /\ last' = [op |-> "collide", e |-> e, o |-> objects[i], obj |-> objects[j],
                c |-> c]
    /\ UNCHANGED <<ejecta, mergeOnCollision, frictionEnabled,
                   bounceOnScreenCollision, nextId, ticks, challenge, target>>

ImpulseNext ==
    \/ /\ nextId <= MaxBodies
       /\ \E p \in CollisionPositions, r \in Radii : Create(p[1], p[2], r)
    \/ /\ nextId <= MaxBodies
       /\ \E p \in CollisionPositions, r \in Radii, v \in CollisionVelocities :
               Launch(p[1], p[2], r, v)
    \/ \E id \in 1..MaxBodies : TogglePinned(id)
    \/ \E i, j \in 1..Len(objects), e \in Restitutions :
           /\ i # j
           /\ Collide(i, j, e, CollideWith(objects[i], objects[j], e,
                                          mergeOnCollision))

ImpulseSpec == Init /\ [][ImpulseNext]_vars

----------------------------------------------------------------------------
\* The engine with bodies at the edge of the cull distance: a body 1 inside
\* it that a neighbor pushes out, one on it and one beyond it.

EdgePositions == {<<5792 * Scale, 600 * Scale>>, <<5799 * Scale, 600 * Scale>>,
                  <<5801 * Scale, 600 * Scale>>}
\* a light body and one heavy enough to pull it by some 1/Scale units
EdgeRadii == {5, 40}

EdgeNext ==
    \/ /\ nextId <= MaxColliders /\ ticks = 0
       /\ \E p \in EdgePositions, r \in EdgeRadii : Create(p[1], p[2], r)
    \/ /\ nextId <= MaxColliders /\ ticks = 0
       /\ \E p \in EdgePositions, r \in EdgeRadii, v \in CollisionVelocities :
               Launch(p[1], p[2], r, v)
    \/ ticks = 0 /\ \E id \in 1..MaxColliders : TogglePinned(id)
    \/ ticks = 0 /\ ToggleMerge
    \/ ticks = 0 /\ ToggleBounce
    \/ ticks < MaxTicks /\ Step

EdgeSpec == Init /\ [][EdgeNext]_vars

----------------------------------------------------------------------------
\* The sandbox as the input layer drives it: each action is what one handler
\* of InputState.Update does in a frame, or a step of the engine (the game can
\* be paused, so frames without a step can follow each other).

\* where the cursor can be, in 1/Scale units: on the screen center, next to
\* it, and beyond the cull distance
CursorPositions == {<<800 * Scale, 600 * Scale>>, <<806 * Scale, 608 * Scale>>,
                    <<5801 * Scale, 600 * Scale>>}
\* InputState.nextRadius as newInputState sets it
nextRadius == 10
\* launchScale of handleMouse, 0.05, as a fraction
launchScaleNum == 5
launchScaleDen == 100

\* what an input handler leaves in `last`: the body it acted on, if any, and
\* whether the store held it
Handled(op, id) == last' = [op |-> op, id |-> id, live |-> id \in Ids(objects)]

\* handleSelection, lines 224-229: a right click at (wx, wy)
RightClick(wx, wy) ==
    /\ input' = [input EXCEPT !.selectedObj =
                                  FindObject(objects, wx, wy, pickRadius)]
    /\ Handled("select", FindObject(objects, wx, wy, pickRadius))
    /\ UNCHANGED <<objects, ejecta, mergeOnCollision, frictionEnabled,
                   bounceOnScreenCollision, nextId, ticks, challenge, target>>

\* handleSelection, lines 231-235: Delete or Backspace
PressDelete ==
    /\ IF input.selectedObj # Nil
       THEN /\ objects' = RemoveObject(objects, input.selectedObj)
            /\ input' = [input EXCEPT !.selectedObj = Nil]
       ELSE UNCHANGED <<objects, input>>
    /\ Handled("delete", input.selectedObj)
    /\ UNCHANGED <<ejecta, mergeOnCollision, frictionEnabled,
                   bounceOnScreenCollision, nextId, ticks, challenge, target>>

\* handleSelection, lines 236-238: Space flips pinned of the selected body,
\* which changes the store only if the body is in it
PressSpace ==
    /\ objects' = [i \in 1..Len(objects) |->
                      IF objects[i].id = input.selectedObj
                      THEN [objects[i] EXCEPT !.pinned = ~@]
                      ELSE objects[i]]
    /\ Handled("pin", input.selectedObj)
    /\ UNCHANGED <<ejecta, mergeOnCollision, frictionEnabled,
                   bounceOnScreenCollision, nextId, ticks, challenge, target,
                   input>>

\* handleMouse, lines 251-261: the left button is down and nothing is aimed
\* or dragged yet: the body under the cursor is picked up, or the aim starts
Pick(s, obj, wx, wy) ==
    IF s.aiming \/ s.dragging THEN s
    ELSE IF obj # Nil THEN [s EXCEPT !.dragging = TRUE, !.dragObj = obj]
    ELSE [s EXCEPT !.aiming = TRUE, !.aimStartX = wx, !.aimStartY = wy]

\* handleMouse, lines 263-268: the dragged body follows the cursor, at rest
Dragged(objs, s, wx, wy) ==
    [i \in 1..Len(objs) |->
        IF s.dragging /\ objs[i].id = s.dragObj
        THEN [objs[i] EXCEPT !.x = wx, !.y = wy,
                             !.velocityX = 0, !.velocityY = 0]
        ELSE objs[i]]

\* handleMouse with the left button down and the cursor at (wx, wy)
MouseDown(wx, wy) ==
    /\ input' = Pick(input, FindObject(objects, wx, wy, pickRadius), wx, wy)
    /\ objects' = Dragged(objects, input', wx, wy)
    /\ Handled("drag", IF input'.dragging THEN input'.dragObj ELSE Nil)
    /\ UNCHANGED <<ejecta, mergeOnCollision, frictionEnabled,
                   bounceOnScreenCollision, nextId, ticks, challenge, target>>

\* handleMouse with the left button up and the cursor at (wx, wy), lines
\* 270-282: an aim launches a new body from where the aim started
MouseUp(wx, wy) ==
    /\ IF input.aiming
       THEN /\ objects' = Thrown(objects, nextId, input.aimStartX,
                                 input.aimStartY, nextRadius,
                                 <<Quot(-(wx - input.aimStartX) * launchScaleNum,
                                        launchScaleDen),
                                   Quot(-(wy - input.aimStartY) * launchScaleNum,
                                        launchScaleDen)>>)
            /\ nextId' = nextId + 1
       ELSE UNCHANGED <<objects, nextId>>
    /\ input' = [input EXCEPT !.aiming = FALSE, !.dragging = FALSE,
                              !.dragObj = Nil]
    /\ Handled("release", Nil)
    /\ UNCHANGED <<ejecta, mergeOnCollision, frictionEnabled,
                   bounceOnScreenCollision, ticks, challenge, target>>

InputNext ==
    \/ \E q \in CursorPositions : RightClick(q[1], q[2])
    \/ PressDelete
    \/ PressSpace
    \/ \E q \in CursorPositions : MouseDown(q[1], q[2])
    \/ /\ input.aiming => nextId <= MaxBodies
       /\ \E q \in CursorPositions : MouseUp(q[1], q[2])
    \/ ToggleMerge
    \/ ticks < MaxTicks /\ Step

InputSpec == Init /\ [][InputNext]_vars

----------------------------------------------------------------------------
\* Properties of the engine.  They read the last call from the history
\* variable: last.before are the bodies the call found, objects the bodies it
\* left.

centerX == (screenWidth * Scale) \div 2
centerY == (screenHeight * Scale) \div 2

\* o is a non-fixed body beyond the cull distance from the screen center
Beyond(o) ==
    ~o.pinned /\ FartherThan(o.x - centerX, o.y - centerY, cullDistance)

\* C1: a step leaves the position and the velocity of every fixed body
\* exactly as they were, whatever the other bodies and the flags are, also
\* when the fixed body overlaps another fixed body.
C1_PinnedUntouchedByStep ==
    last.op = "step" =>
        \A i \in 1..Len(last.before) :
            last.before[i].pinned =>
                /\ last.before[i].id \in Ids(objects)
                /\ Body(objects, last.before[i].id).x = last.before[i].x
                /\ Body(objects, last.before[i].id).y = last.before[i].y
                /\ Body(objects, last.before[i].id).velocityX
                       = last.before[i].velocityX
                /\ Body(objects, last.before[i].id).velocityY
                       = last.before[i].velocityY

\* C2: every merge conserves mass exactly: the squared radius of the survivor
\* is the sum of the squared radii of the two bodies that merged.
C2_MergeConservesMass ==
    last.op = "step" =>
        \A k \in 1..Len(last.merges) :
            last.merges[k].result.radius * last.merges[k].result.radius
                = last.merges[k].into.radius * last.merges[k].into.radius
                  + last.merges[k].from.radius * last.merges[k].from.radius

\* the momentum the merge m loses on one axis: the momentum of the two bodies
\* before it minus the stored mass of the survivor times its velocity
LostMomentumX(m) ==
    m.into.mass * m.into.velocityX + m.from.mass * m.from.velocityX
        - m.result.mass * m.result.velocityX
LostMomentumY(m) ==
    m.into.mass * m.into.velocityY + m.from.mass * m.from.velocityY
        - m.result.mass * m.result.velocityY

\* C3: every merge conserves linear momentum on each axis: the stored mass of
\* the survivor times its new velocity is the sum of mass times velocity of
\* the two bodies just before the merge.  The tolerance is what rounding the
\* new velocity to one unit of 1/Scale can cost: the combined mass.
C3_MergeConservesMomentum ==
    last.op = "step" =>
        \A k \in 1..Len(last.merges) :
            /\ Abs(LostMomentumX(last.merges[k]))
                   <= last.merges[k].into.mass + last.merges[k].from.mass
            /\ Abs(LostMomentumY(last.merges[k]))
                   <= last.merges[k].into.mass + last.merges[k].from.mass

\* C4 as the specification states it: a non-fixed body beyond the cull
\* distance when a step begins is absent after that step, whatever its
\* velocity.
C4_FarAtStartGone ==
    last.op = "step" =>
        \A i \in 1..Len(last.before) :
            Beyond(last.before[i]) => last.before[i].id \notin Ids(objects)

\* C4, amended: a non-fixed body beyond the cull distance when a step begins
\* is absent after that step unless the integration, the collisions and the
\* screen bounce of that step have brought it within the cull distance: a
\* body that is still in the store was not beyond the distance when the
\* culling ran.
C4_FarAtStartAndAtCullGone ==
    last.op = "step" =>
        \A i \in 1..Len(last.before) :
            (Beyond(last.before[i]) /\ last.before[i].id \in Ids(objects)) =>
                ~Beyond(Body(last.atCull, last.before[i].id))

\* a step has culled a body that was beyond the cull distance when the step
\* began and still was when the culling ran
C4_Witness ==
    /\ last.op = "step"
    /\ \E i \in 1..Len(last.before) :
          /\ Beyond(last.before[i])
          /\ last.before[i].id \in Ids(last.atCull)
          /\ Beyond(Body(last.atCull, last.before[i].id))
          /\ last.before[i].id \notin Ids(objects)

\* C5: after every step, whatever the merge, friction and screen-bounce flags
\* are, no non-fixed body in the store is beyond the cull distance.
C5_NoFarBodyAfterStep ==
    last.op = "step" => \A j \in 1..Len(objects) : ~Beyond(objects[j])

\* a step with friction and screen bounce on has culled one body and kept
\* another
C5_Witness ==
    /\ last.op = "step"
    /\ frictionEnabled /\ bounceOnScreenCollision
    /\ Len(objects) = 1
    /\ Len(last.atCull) = 2

\* the body o is within reach of the query point (wx, wy): its distance to
\* the point is strictly less than queryRadius + o.radius.  A body with one
\* coordinate as far as that is out of reach, and its squares are not formed.
InReach(o, wx, wy, queryRadius) ==
    /\ Abs(o.x - wx) < (queryRadius + o.radius) * Scale
    /\ Abs(o.y - wy) < (queryRadius + o.radius) * Scale
    /\ (o.x - wx) * (o.x - wx) + (o.y - wy) * (o.y - wy)
           < (queryRadius + o.radius) * Scale * (queryRadius + o.radius) * Scale

\* the squared distance of two points that are both in reach of each other
SquaredDistance(o, wx, wy) ==
    (o.x - wx) * (o.x - wx) + (o.y - wy) * (o.y - wy)

\* C6: findNear returns the earliest-inserted body within reach of the query
\* point, also when a later body is nearer, returns no match exactly when no
\* body is within reach, and leaves the store as it was.
C6_FindNearFirstInReach ==
    last.op = "find" =>
        /\ objects = last.before
        /\ (last.obj = Nil) <=>
               (\A i \in 1..Len(objects) :
                    ~InReach(objects[i], last.wx, last.wy, pickRadius))
        /\ last.obj # Nil =>
               \E i \in 1..Len(objects) :
                   /\ objects[i].id = last.obj
                   /\ InReach(objects[i], last.wx, last.wy, pickRadius)
                   /\ \A k \in 1..(i - 1) :
                          ~InReach(objects[k], last.wx, last.wy, pickRadius)

\* findNear has returned the first of two bodies in reach, the second being
\* nearer to the query point
C6_Witness ==
    /\ last.op = "find"
    /\ Len(objects) = 2
    /\ last.obj = objects[1].id
    /\ InReach(objects[1], last.wx, last.wy, pickRadius)
    /\ InReach(objects[2], last.wx, last.wy, pickRadius)
    /\ SquaredDistance(objects[2], last.wx, last.wy)
           < SquaredDistance(objects[1], last.wx, last.wy)

\* C7: remove deletes exactly the body with the given identity and keeps the
\* others in their order; with an identity that is not in the store it
\* leaves the collection as it was.
C7_RemoveExactlyThatBody ==
    last.op = "remove" =>
        IF last.id \in Ids(last.before)
        THEN objects = SelectSeq(last.before, LAMBDA o : o.id # last.id)
        ELSE objects = last.before

\* remove has deleted the first of two bodies and left the second
C7_Witness ==
    /\ last.op = "remove"
    /\ Len(last.before) = 2
    /\ last.id = last.before[1].id
    /\ objects = <<last.before[2]>>

\* remove with an identity that a merge or the culling has already taken out
\* of a store that still holds a body
C7_AbsentWitness ==
    /\ last.op = "remove"
    /\ last.id < nextId
    /\ last.id \notin Ids(last.before)
    /\ ticks > 0
    /\ objects # <<>>
    /\ objects = last.before

\* C9: every body in the store has radius >= 1 and mass > 0, and no merge
\* leaves a survivor with a smaller radius than either of the two bodies or
\* with mass 0.
C9_RadiusAndMassPositive ==
    /\ \A i \in 1..Len(objects) : objects[i].radius >= 1 /\ objects[i].mass > 0
    /\ last.op = "step" =>
           \A k \in 1..Len(last.merges) :
               /\ last.merges[k].result.radius >= last.merges[k].into.radius
               /\ last.merges[k].result.radius >= last.merges[k].from.radius
               /\ last.merges[k].result.mass > 0

\* a step has merged two bodies of different radii and the survivor is in the
\* store
C9_Witness ==
    /\ last.op = "step"
    /\ Len(last.merges) = 1
    /\ last.merges[1].into.radius # last.merges[1].from.radius
    /\ last.merges[1].result.id \in Ids(objects)
    /\ Body(objects, last.merges[1].result.id).radius
           = last.merges[1].result.radius

\* C10: create adds exactly one body, at the end of the collection, with the
\* given position and radius, mass radius squared, zero velocity and not
\* fixed, and leaves every body that was there and their order unchanged.
C10_CreateAppendsOneBody ==
    last.op = "create" =>
        /\ Len(objects) = Len(last.before) + 1
        /\ SubSeq(objects, 1, Len(last.before)) = last.before
        /\ objects[Len(objects)].id \notin Ids(last.before)
        /\ objects[Len(objects)].x = last.x
        /\ objects[Len(objects)].y = last.y
        /\ objects[Len(objects)].radius = last.radius
        /\ objects[Len(objects)].mass = last.radius * last.radius
        /\ objects[Len(objects)].velocityX = 0
        /\ objects[Len(objects)].velocityY = 0
        /\ ~objects[Len(objects)].pinned

\* create has added a body to a store that held one that is fixed and moving
C10_Witness ==
    /\ last.op = "create"
    /\ Len(last.before) = 1
    /\ last.before[1].pinned
    /\ last.before[1].velocityX # 0
    /\ Len(objects) = 2

----------------------------------------------------------------------------
\* Properties of the game

\* C8: in every reachable state, after any sequence of create, remove, step,
\* and enter, exit and level load of a game mode, no identity is in the live
\* body collection more than once.
C8_NoDuplicateIdentities ==
    \A i, j \in 1..Len(objects) : objects[i].id = objects[j].id => i = j

\* The challenge was entered with two bodies in the sandbox, its level was
\* changed to one of several planets, the orbiter was launched and a
\* step has run
C8_Witness ==
    /\ challenge.active
    /\ Len(challenge.savedObjects) = 2
    /\ challenge.currentLevel # 0
    /\ challenge.state = "Orbiting"
    /\ challenge.orbiter \in Ids(objects)
    /\ Len(objects) >= 3
    /\ ticks > 0

\* the sandbox is back after a game mode, with the two bodies it held
C8_RestoredWitness ==
    /\ Sandbox
    /\ last.op = "none"
    /\ Len(objects) = 2
    /\ nextId > 4
    /\ ticks > 0
    /\ ~mergeOnCollision

----------------------------------------------------------------------------
\* Properties of the ejecta

\* the whole part of the relative speed of the pair of merge m as the scan
\* found it at the impact
RelativeSpeed(m) ==
    ISqrt((m.into.velocityX - m.from.velocityX)
              * (m.into.velocityX - m.from.velocityX)
          + (m.into.velocityY - m.from.velocityY)
              * (m.into.velocityY - m.from.velocityY)) \div Scale

Min(a, b) == IF a < b THEN a ELSE b

\* the particles the merges of the last step spawned
SpawnedCount(k) == SumOf([n \in 1..Len(last.merges) |-> last.merges[n].count], k)

\* the particles of the ejecta that have aged once
FreshCount == Cardinality({n \in 1..Len(ejecta) : ejecta[n].life = 985})

\* C11 as stated: every merge spawns one burst of min(16, 8 + floor(relative
\* speed of the pair)) particles, and no burst has more than 16.
C11_BurstIsEightPlusSpeed ==
    last.op = "step" =>
        /\ \A k \in 1..Len(last.merges) :
               /\ last.merges[k].count
                      = Min(16, 8 + RelativeSpeed(last.merges[k]))
               /\ last.merges[k].count <= 16
        /\ FreshCount = SpawnedCount(Len(last.merges))

\* C11, amended: every merge spawns one burst of min(16, 8 + floor(relative
\* speed of the pair + 1.0)) particles, and no burst has more than 16; the
\* particles a step adds are those of the bursts of its merges.
C11_BurstIsEightPlusSpeedPlusOne ==
    last.op = "step" =>
        /\ \A k \in 1..Len(last.merges) :
               /\ last.merges[k].count
                      = Min(16, 8 + RelativeSpeed(last.merges[k]) + 1)
               /\ last.merges[k].count <= 16
        /\ FreshCount = SpawnedCount(Len(last.merges))

\* a step with two merges, one whose burst is below 16 particles and one
\* whose burst would exceed 16 and is cut to 16
C11_Witness ==
    /\ last.op = "step"
    /\ \E k \in 1..Len(last.merges) :
           /\ RelativeSpeed(last.merges[k]) > 0
           /\ last.merges[k].count < 16
    /\ \E k \in 1..Len(last.merges) :
           /\ 8 + RelativeSpeed(last.merges[k]) + 1 > 16
           /\ last.merges[k].count = 16


\* the particles of old that have more life left than one step takes
StillAlive(old) == SelectSeq(old, LAMBDA p : p.life > 15)

\* the collection now is the particles kept, each 0.015 older, and after them
\* the spawned particles, which have aged once
AgedFrom(kept, spawned) ==
    /\ Len(ejecta) = Len(kept) + spawned
    /\ \A n \in 1..Len(ejecta) :
           ejecta[n].life = IF n <= Len(kept) THEN kept[n].life - 15 ELSE 985

\* C12: a particle starts with life 1.0 and loses 0.015 in every step, the
\* step that spawns it included; a particle whose life has dropped to zero or
\* below is not in the collection after the step.  So a particle that has gone
\* through k steps has life 1.0 - 0.015 * k, it is still there after 66 steps
\* at most, and it is gone after 67.
C12_EjectaAgeAndDie ==
    /\ \A n \in 1..Len(ejecta) :
           /\ ejecta[n].life > 0
           /\ \E k \in 1..66 : ejecta[n].life = 1000 - 15 * k
    /\ last.op = "step" =>
           AgedFrom(StillAlive(last.ejectaBefore), SpawnedCount(Len(last.merges)))

\* the 67th step of a burst: the particles had life 0.01 left after 66 steps,
\* and the step removed them
C12_Witness ==
    /\ last.op = "step"
    /\ ticks >= 67
    /\ last.ejectaBefore # <<>>
    /\ \A n \in 1..Len(last.ejectaBefore) : last.ejectaBefore[n].life = 10
    /\ ejecta = <<>>

----------------------------------------------------------------------------
\* Properties of the integrator

\* G * (mj / mi) * d / (d^2 + q^2 + eps^2) in 1/Scale units, d and q the two
\* components of p_j - p_i: G * mj * d * Scale over mi * (d^2 + q^2 + eps^2)
\* / Scale = mi * over.  It is 0 at zero distance, and below one unit when
\* mi * over is beyond the integers.
PullOver(num, mi, over) ==
    IF over > 2000000000 \div mi THEN 0 ELSE Quot(num, mi * over)

FormulaPull(mi, mj, d, q) ==
    PullOver(Quot(GNum * mj * d, GDen \div Scale), mi,
             (d * d + q * q
              + softeningParameter * softeningParameter * Scale * Scale)
             \div Scale)

\* the sum of the formula over the bodies of objs other than the i-th, from
\* the k-th on
RECURSIVE FormulaSum(_, _, _)
FormulaSum(objs, i, k) ==
    IF k > Len(objs) THEN <<0, 0>>
    ELSE IF k = i THEN FormulaSum(objs, i, k + 1)
    ELSE <<FormulaPull(objs[i].mass, objs[k].mass,
                       objs[k].x - objs[i].x, objs[k].y - objs[i].y)
               + FormulaSum(objs, i, k + 1)[1],
           FormulaPull(objs[i].mass, objs[k].mass,
                       objs[k].y - objs[i].y, objs[k].x - objs[i].x)
               + FormulaSum(objs, i, k + 1)[2]>>

\* a is the vector f up to the rounding of one unit for each term
WithinRounding(a, f, terms) ==
    Abs(a[1] - f[1]) <= terms /\ Abs(a[2] - f[2]) <= terms

\* C13: the acceleration a step computes for a body that is not fixed is the
\* sum over all other bodies, fixed or not, of G * (mass_j / mass_i) *
\* (p_j - p_i) / (|p_j - p_i|^2 + eps^2), on the positions the step has moved
\* the bodies to; a body at the same point adds nothing.  The sum is met up
\* to the rounding of 0.01 for each term.
C13_AccelerationFollowsFormula ==
    last.op = "step" =>
        \A i \in 1..Len(last.integrated) :
            ~last.integrated[i].pinned =>
                WithinRounding(<<last.integrated[i].ax, last.integrated[i].ay>>,
                               FormulaSum(last.integrated, i, 1),
                               Len(last.integrated) - 1)

\* a step in which a body that is not fixed is pulled by a fixed body by more
\* than the rounding, while a third body, not fixed, stands at the very point
\* of the pulled one
C13_Witness ==
    /\ last.op = "step"
    /\ \E i, j, k \in 1..Len(last.integrated) :
           /\ i # j /\ i # k /\ j # k
           /\ ~last.integrated[i].pinned /\ ~last.integrated[j].pinned
           /\ last.integrated[j].x = last.integrated[i].x
           /\ last.integrated[j].y = last.integrated[i].y
           /\ last.integrated[k].pinned
           /\ Abs(last.integrated[i].ax) + Abs(last.integrated[i].ay) > 3
           /\ Abs(FormulaPull(last.integrated[i].mass, last.integrated[k].mass,
                              last.integrated[k].x - last.integrated[i].x,
                              last.integrated[k].y - last.integrated[i].y)) > 3


\* the square of the distance between the centers of a and b, in 1/Scale units
CenterDistanceSquared(a, b) ==
    (a.x - b.x) * (a.x - b.x) + (a.y - b.y) * (a.y - b.y)

\* the distance between a and b is within 5% of distance (in whole units)
WithinFivePercent(a, b, distance) ==
    /\ CenterDistanceSquared(a, b)
           >= ((95 * Scale * distance) \div 100) * ((95 * Scale * distance) \div 100)
    /\ CenterDistanceSquared(a, b)
           <= ((105 * Scale * distance) \div 100) * ((105 * Scale * distance) \div 100)

\* C14: a fixed body of mass 10000 and one light body that was placed at
\* distance r from it with the speed sqrt(G * M / r) along the tangent: after
\* every step the light body is within 5% of r from the fixed body, r being
\* one of the distances a planet is placed at.
C14_OrbitStaysWithinFivePercent ==
    (/\ Len(objects) = 2
     /\ objects[1].pinned /\ objects[1].mass = sunMass
     /\ ~objects[2].pinned)
        => \E distance \in OrbitDistances :
               WithinFivePercent(objects[2], objects[1], distance)

----------------------------------------------------------------------------
\* Properties of the collision phase

\* C15: fusion is deferred.  While the scan of a step runs, a pair that
\* qualifies for the merge is only marked: every pair the scan examines finds
\* its two bodies with the radius and the mass they had when the scan began,
\* whatever pairs have qualified before it.
C15_ScanSeesBodiesBeforeFusion ==
    last.op = "step" =>
        \A k \in 1..Len(last.pairs) :
            /\ last.pairs[k].o.radius = last.integrated[last.pairs[k].i].radius
            /\ last.pairs[k].o.mass = last.integrated[last.pairs[k].i].mass
            /\ last.pairs[k].obj.radius = last.integrated[last.pairs[k].j].radius
            /\ last.pairs[k].obj.mass = last.integrated[last.pairs[k].j].mass


\* C17: in one step with merge mode on, every body the merges remove was
\* absorbed once only, and by a body that is in the store when the collision
\* phase of the step has applied its removals.
C17_AbsorbedOnceBySurvivor ==
    last.op = "step" =>
        \A k \in 1..Len(last.merges) :
            /\ last.merges[k].into.id \in Ids(last.atCull)
            /\ \A n \in 1..Len(last.merges) :
                   last.merges[n].from.id = last.merges[k].from.id => n = k


\* the scan has examined every pair (i, j), i < j, of the n bodies it began
\* with, each body at the index it had then
EveryPairExamined(n) ==
    /\ 2 * Len(last.pairs) = n * (n - 1)
    /\ \A i, j \in 1..n :
           i < j => \E k \in 1..Len(last.pairs) :
                        /\ last.pairs[k].i = i /\ last.pairs[k].j = j
                        /\ last.pairs[k].o.id = last.integrated[i].id
                        /\ last.pairs[k].obj.id = last.integrated[j].id

\* C16: the removals of the merges are collected during the scan and applied
\* after it.  In every merged pair the body with the lower index absorbs and
\* the one with the higher index is removed; until the scan ends the absorbed
\* body keeps its index and is examined in every later pair, and it is not in
\* the store when the step returns.
C16_RemovalsAfterTheScan ==
    last.op = "step" =>
        /\ last.scanned = IdsOf(last.integrated)
        /\ EveryPairExamined(Len(last.integrated))
        /\ last.toRemove
               = [k \in 1..Len(last.merges) |-> last.merges[k].from.id]
        /\ \A k \in 1..Len(last.merges) :
               /\ last.merges[k].i < last.merges[k].j
               /\ last.merges[k].into.id
                      = last.integrated[last.merges[k].i].id
               /\ last.merges[k].result.id = last.merges[k].into.id
               /\ last.merges[k].from.id
                      = last.integrated[last.merges[k].j].id
               /\ last.merges[k].from.id \notin Ids(last.atCull)
               /\ last.merges[k].from.id \notin Ids(objects)
        /\ Ids(last.atCull)
               = Ids(last.integrated)
                     \ {last.toRemove[k] : k \in 1..Len(last.toRemove)}

\* a step of three bodies in which the second is absorbed by the first and is
\* then examined with the third, which it overlaps
C16_Witness ==
    /\ last.op = "step"
    /\ Len(last.integrated) = 3
    /\ last.merges # <<>>
    /\ last.merges[1].i = 1 /\ last.merges[1].j = 2
    /\ \E k \in 1..Len(last.pairs) :
           /\ last.pairs[k].i = 2 /\ last.pairs[k].j = 3
           /\ last.pairs[k].o.id = last.merges[1].from.id
           /\ Touching(last.pairs[k].o, last.pairs[k].obj)
    /\ Len(objects) < 3


\* the velocity of a is that of b
SameVelocity(a, b) == a.velocityX = b.velocityX /\ a.velocityY = b.velocityY

\* the speed, along the line of their centers, at which the bodies a and b
\* close in or part, in 1/Scale units; 0 when the centers coincide
NormalSpeed(a, b) ==
    IF CenterDistanceSquared(a, b) = 0 THEN 0
    ELSE Quot((a.velocityX - b.velocityX) * (a.x - b.x)
                  + (a.velocityY - b.velocityY) * (a.y - b.y),
              ISqrt(CenterDistanceSquared(a, b)))

\* the scan of the last step merged the pair (i, j)
MergedPair(i, j) ==
    \E n \in 1..Len(last.merges) : last.merges[n].i = i /\ last.merges[n].j = j

\* C18: a pair that overlaps is fused exactly if merge mode is on and neither
\* body is fixed, and then its collision test changes no velocity.  With merge
\* mode off, or on with one body fixed, the pair is not fused and gets the
\* impulse: a pair that closes in or parts by 0.1 a step or more has a
\* velocity changed.
C18_FusedIffMergeModeAndNoneFixed ==
    last.op = "step" =>
        \A k \in 1..Len(last.pairs) :
            Touching(last.pairs[k].o, last.pairs[k].obj) =>
                /\ last.pairs[k].c.merge
                       <=> (/\ mergeOnCollision
                            /\ ~last.pairs[k].o.pinned
                            /\ ~last.pairs[k].obj.pinned)
                /\ last.pairs[k].c.merge
                       <=> MergedPair(last.pairs[k].i, last.pairs[k].j)
                /\ last.pairs[k].c.merge =>
                       /\ SameVelocity(last.pairs[k].c.o, last.pairs[k].o)
                       /\ SameVelocity(last.pairs[k].c.obj, last.pairs[k].obj)
                /\ (/\ ~last.pairs[k].c.merge
                    /\ ~(last.pairs[k].o.pinned /\ last.pairs[k].obj.pinned)
                    /\ Abs(NormalSpeed(last.pairs[k].o, last.pairs[k].obj)) >= 10)
                       => \/ ~SameVelocity(last.pairs[k].c.o, last.pairs[k].o)
                          \/ ~SameVelocity(last.pairs[k].c.obj, last.pairs[k].obj)

\* a step in merge mode in which one overlapping pair is fused, its
\* velocities untouched by the test, and another, with a fixed body, gets the
\* impulse
C18_Witness ==
    /\ last.op = "step" /\ mergeOnCollision
    /\ \E k \in 1..Len(last.pairs) :
           /\ Touching(last.pairs[k].o, last.pairs[k].obj)
           /\ last.pairs[k].c.merge
           /\ ~SameVelocity(last.pairs[k].o, last.pairs[k].obj)
    /\ \E k \in 1..Len(last.pairs) :
           /\ Touching(last.pairs[k].o, last.pairs[k].obj)
           /\ ~last.pairs[k].c.merge
           /\ last.pairs[k].o.pinned # last.pairs[k].obj.pinned
           /\ ~SameVelocity(last.pairs[k].c.o, last.pairs[k].o)


\* the distance between the centers of a and b, in 1/Scale units
CenterDistance(a, b) == ISqrt(CenterDistanceSquared(a, b))

\* by how much the pair p of the scan overlapped when the scan found it
OverlapOf(p) ==
    (p.o.radius + p.obj.radius) * Scale - CenterDistance(p.o, p.obj)

\* The rounding of the push of pair p, in 1/Scale units.  Each coordinate of
\* each body is cut to a whole unit twice, in the push and in the share of
\* it: 6 units on the distance.  The distance of the centers is known to one
\* unit, so the normal is off by one part in that distance, and the push by
\* as much of the overlap.
Rounding(p) ==
    IF CenterDistance(p.o, p.obj) = 0 THEN 6
    ELSE 6 + OverlapOf(p) \div CenterDistance(p.o, p.obj)

\* a is b up to that rounding
Near(a, b, rounding) == Abs(a - b) <= rounding

\* the pair p has been pushed apart: its centers are the sum of the radii
\* apart, and if neither body is fixed each has moved by the overlap times
\* the share of the other in the mass of the two
PushedApart(p) ==
    /\ Near(CenterDistance(p.c.o, p.c.obj), (p.o.radius + p.obj.radius) * Scale,
            Rounding(p))
    /\ (~p.o.pinned /\ ~p.obj.pinned) =>
           /\ Near(CenterDistance(p.c.o, p.o),
                   Quot(OverlapOf(p) * p.obj.mass, p.o.mass + p.obj.mass),
                   Rounding(p))
           /\ Near(CenterDistance(p.c.obj, p.obj),
                   Quot(OverlapOf(p) * p.o.mass, p.o.mass + p.obj.mass),
                   Rounding(p))

\* C19: every pair that overlaps and has a body that is not fixed is pushed
\* apart when the scan handles it: right after, the centers are the sum of
\* the radii apart.  This holds for two bodies at the same point too.
C19_OverlappingPairPushedApart ==
    last.op = "step" =>
        \A k \in 1..Len(last.pairs) :
            (/\ Touching(last.pairs[k].o, last.pairs[k].obj)
             /\ ~(last.pairs[k].o.pinned /\ last.pairs[k].obj.pinned))
                => PushedApart(last.pairs[k])


\* (1 + e) times the speed along the line of centers at which free moves
\* against fixed, taken along that line: one component (x - fixed.x is d) of
\* the velocity change of the impulse, with its sign
ImpulseAlong(free, fixed, d) ==
    -Quot(Quot((10 + restitution) * NormalSpeed(free, fixed), 10) * d,
          CenterDistance(free, fixed))

\* The pair p of a fixed and a free body, found as fixed and free and left as
\* cfixed and cfree: the fixed body is as it was; the free body has moved by
\* the whole overlap, to where the centers are the sum of the radii apart, and
\* its velocity has changed by the impulse, up to a rounding of 0.1.
OnlyFreeBodyResponds(p, fixed, free, cfixed, cfree) ==
    /\ cfixed = fixed
    /\ Near(CenterDistance(cfree, free), OverlapOf(p), Rounding(p))
    /\ Near(CenterDistance(cfree, cfixed), (p.o.radius + p.obj.radius) * Scale,
            Rounding(p))
    /\ Near(cfree.velocityX - free.velocityX,
            ImpulseAlong(free, fixed, free.x - fixed.x), 10)
    /\ Near(cfree.velocityY - free.velocityY,
            ImpulseAlong(free, fixed, free.y - fixed.y), 10)

MomentumX(a, b) == a.mass * b.velocityX
MomentumY(a, b) == a.mass * b.velocityY

\* C21: a collision of two bodies that are not fixed, without merge, gives
\* the two bodies impulses of opposite sign, each velocity change scaled by
\* the mass of the other body: the momentum m_i * v_i + m_j * v_j of the pair
\* is after the call what it was before, whatever the restitution from 0 to 1.
\* It is met up to the rounding of 0.02 in each velocity.
C21_ImpulseConservesMomentum ==
    (/\ last.op = "collide"
     /\ ~last.c.merge /\ ~last.o.pinned /\ ~last.obj.pinned)
        => /\ Abs(MomentumX(last.o, last.c.o) + MomentumX(last.obj, last.c.obj)
                  - MomentumX(last.o, last.o) - MomentumX(last.obj, last.obj))
                  <= 2 * (last.o.mass + last.obj.mass)
           /\ Abs(MomentumY(last.o, last.c.o) + MomentumY(last.obj, last.c.obj)
                  - MomentumY(last.o, last.o) - MomentumY(last.obj, last.obj))
                  <= 2 * (last.o.mass + last.obj.mass)
           /\ (last.c.o.velocityX - last.o.velocityX)
                  * (last.c.obj.velocityX - last.obj.velocityX) <= 0
           /\ (last.c.o.velocityY - last.o.velocityY)
                  * (last.c.obj.velocityY - last.obj.velocityY) <= 0

\* a collision of a light and a heavy body, neither fixed, with a restitution
\* other than the one of the world, that changes both velocities
C21_Witness ==
    /\ last.op = "collide"
    /\ last.e # restitution
    /\ ~last.c.merge /\ ~last.o.pinned /\ ~last.obj.pinned
    /\ last.o.mass # last.obj.mass
    /\ last.c.o.velocityX # last.o.velocityX
    /\ last.c.obj.velocityX # last.obj.velocityX
    /\ last.c.o.velocityY # last.o.velocityY


\* the centers of a and b are at least the sum of the radii apart
Apart(a, b) ==
    \/ Abs(a.x - b.x) >= (a.radius + b.radius) * Scale
    \/ Abs(a.y - b.y) >= (a.radius + b.radius) * Scale
    \/ CenterDistanceSquared(a, b)
           >= (a.radius + b.radius) * Scale * (a.radius + b.radius) * Scale

\* the centers of a and b are exactly the sum of the radii apart
InContact(a, b) ==
    /\ Abs(a.x - b.x) <= (a.radius + b.radius) * Scale
    /\ Abs(a.y - b.y) <= (a.radius + b.radius) * Scale
    /\ CenterDistanceSquared(a, b)
           = (a.radius + b.radius) * Scale * (a.radius + b.radius) * Scale

\* C22: a pair whose centers are at least the sum of the radii apart, the
\* pair that exactly touches included, does not interact: the scan leaves the
\* position and the velocity of both bodies as it found them, the pair is not
\* marked for merge, no body is fused or collected for removal because of it
\* and, when no pair of the step overlaps, the step spawns no ejecta.
C22_ApartPairDoesNotInteract ==
    last.op = "step" =>
        /\ \A k \in 1..Len(last.pairs) :
               Apart(last.pairs[k].o, last.pairs[k].obj)
                   => /\ last.pairs[k].c.o = last.pairs[k].o
                      /\ last.pairs[k].c.obj = last.pairs[k].obj
                      /\ ~last.pairs[k].c.merge
                      /\ ~MergedPair(last.pairs[k].i, last.pairs[k].j)
        /\ (\A k \in 1..Len(last.pairs) :
                Apart(last.pairs[k].o, last.pairs[k].obj))
               => /\ last.merges = <<>>
                  /\ last.toRemove = <<>>
                  /\ FreshCount = 0

\* a step in merge mode that examined two bodies that exactly touch and were
\* approaching each other, and left both in the store
C22_Witness ==
    /\ last.op = "step"
    /\ mergeOnCollision
    /\ \E k \in 1..Len(last.pairs) :
           /\ InContact(last.pairs[k].o, last.pairs[k].obj)
           /\ ~last.pairs[k].o.pinned /\ ~last.pairs[k].obj.pinned
           /\ last.pairs[k].o.velocityX # last.pairs[k].obj.velocityX
    /\ Len(objects) = Len(last.before)
    /\ Len(objects) >= 2


----------------------------------------------------------------------------
\* Properties of the order of the phases of a step

\* the bodies of objs that cullDistantObjects keeps
NotFar(o) == ~IsFar(o)

\* the particles of the burst of the step, as the scan left them
FreshlySpawned(parts) == Cardinality({n \in 1..Len(parts) : parts[n].life = 1000})

\* C23: a step runs its phases in a fixed order: the integration of all
\* bodies that are not fixed, the scan of the pairs (which spawns ejecta), the
\* optional screen bounce, the culling, the cosmetic decay of every body still
\* in the store, the aging of the ejecta. So the integration and the scan see
\* every body the step started with, a culled one included, and every body
\* pulls the others; the bounce changes what the scan left; culling is decided
\* on the positions after the scan; the decay acts on the bodies culling kept,
\* the survivor of a merge of this step included; and the particles spawned in
\* the step have been aged once when it returns.
C23_PhasesInOrder ==
    last.op = "step" =>
        /\ IdsOf(last.integrated) = IdsOf(last.before)
        /\ \A i \in 1..Len(last.integrated) :
               ~last.integrated[i].pinned =>
                   /\ last.integrated[i].ax
                          = CalculateAcceleration(last.integrated[i],
                                                  last.integrated)[1]
                   /\ last.integrated[i].ay
                          = CalculateAcceleration(last.integrated[i],
                                                  last.integrated)[2]
        /\ last.scanned = IdsOf(last.integrated)
        /\ EveryPairExamined(Len(last.integrated))
        /\ IdsOf(last.collided)
               = SelectSeq(last.scanned,
                           LAMBDA id : \A k \in 1..Len(last.toRemove) :
                                           last.toRemove[k] # id)
        /\ IdsOf(last.atCull) = IdsOf(last.collided)
        /\ \A i \in 1..Len(last.atCull) :
               last.atCull[i]
                   = IF bounceOnScreenCollision /\ ~last.collided[i].pinned
                     THEN BounceOnScreenCollision(last.collided[i])
                     ELSE last.collided[i]
        /\ IdsOf(objects) = IdsOf(SelectSeq(last.atCull, NotFar))
        /\ \A i \in 1..Len(objects) :
               objects[i] = UpdateRotation(Body(last.atCull, objects[i].id))
        /\ \A n \in 1..Len(ejecta) : ejecta[n].life <= 985
        /\ FreshCount = FreshlySpawned(last.spawned)

\* a step in which a body that was within the cull distance after the
\* integration pulled another body, collided, was pushed beyond the cull
\* distance by the collision and was then culled
C23_Witness ==
    /\ last.op = "step"
    /\ \E i, j, k \in 1..Len(last.integrated) :
           /\ i # j /\ k # j
           /\ ~last.integrated[i].pinned
           /\ PullFrom(last.integrated[i].mass, last.integrated[j].mass,
                       last.integrated[j].x - last.integrated[i].x,
                       last.integrated[j].y - last.integrated[i].y) # 0
           /\ ~IsFar(last.integrated[j])
           /\ Touching(last.integrated[k], last.integrated[j])
           /\ last.integrated[j].id \in Ids(last.atCull)
           /\ IsFar(Body(last.atCull, last.integrated[j].id))
           /\ last.integrated[j].id \notin Ids(objects)
           /\ last.integrated[i].id \in Ids(objects)

\* a step in merge mode whose burst is in the store, aged once, and whose
\* survivor has started to decay
C23_BurstWitness ==
    /\ last.op = "step"
    /\ last.merges # <<>>
    /\ FreshCount > 0
    /\ \E i \in 1..Len(objects) :
           /\ objects[i].id = last.merges[1].into.id
           /\ objects[i].mergeTimer = 985


\* the acceleration of body i of the step from the positions all bodies have
\* after the first phase
NewAcceleration(i) == CalculateAcceleration(last.integrated[i], last.integrated)

\* C24: the integrator skips the fixed bodies and works in three phases over
\* the whole collection. Every body that is not fixed gets the position
\* x + v + a / 2 from its velocity and its cached acceleration; its new
\* acceleration is the one the advanced positions of all bodies give; its
\* velocity grows by half the sum of the cached and the new acceleration, and
\* the cache holds the new acceleration. A fixed body keeps its position, its
\* velocity and its cached acceleration. (Without friction, which the step
\* applies to the velocity afterwards.)
C24_IntegratorInThreePhases ==
    (last.op = "step" /\ ~frictionEnabled) =>
        /\ Len(last.integrated) = Len(last.before)
        /\ \A i \in 1..Len(last.before) :
               IF last.before[i].pinned
               THEN last.integrated[i] = last.before[i]
               ELSE /\ last.integrated[i].x
                           = last.before[i].x + last.before[i].velocityX
                                 + Quot(last.before[i].ax, 2)
                    /\ last.integrated[i].y
                           = last.before[i].y + last.before[i].velocityY
                                 + Quot(last.before[i].ay, 2)
                    /\ last.integrated[i].ax = NewAcceleration(i)[1]
                    /\ last.integrated[i].ay = NewAcceleration(i)[2]
                    /\ last.integrated[i].velocityX
                           = last.before[i].velocityX
                                 + Quot(last.before[i].ax + NewAcceleration(i)[1], 2)
                    /\ last.integrated[i].velocityY
                           = last.before[i].velocityY
                                 + Quot(last.before[i].ay + NewAcceleration(i)[2], 2)
                    /\ last.integrated[i]
                           = [last.before[i] EXCEPT
                                !.x = last.integrated[i].x,
                                !.y = last.integrated[i].y,
                                !.velocityX = last.integrated[i].velocityX,
                                !.velocityY = last.integrated[i].velocityY,
                                !.ax = last.integrated[i].ax,
                                !.ay = last.integrated[i].ay]

\* a step with a fixed sun and two moving planets whose cached accelerations
\* were not zero and have changed, as have their velocities
C24_Witness ==
    /\ last.op = "step"
    /\ Len(last.before) = 3
    /\ \E s \in 1..3 :
           /\ last.before[s].pinned
           /\ \A i \in 1..3 \ {s} :
                  /\ ~last.before[i].pinned
                  /\ last.before[i].ax # 0
                  /\ last.before[i].velocityY # 0
                  /\ last.integrated[i].velocityX # last.before[i].velocityX
                  /\ \/ last.integrated[i].ax # last.before[i].ax
                     \/ last.integrated[i].ay # last.before[i].ay

----------------------------------------------------------------------------
\* Properties of the store across a step

\* body id of the collection before the step was absorbed in a merge of it
AbsorbedInStep(id) == \E n \in 1..Len(last.merges) : last.merges[n].from.id = id

\* body id was beyond the cull distance when the step culled
CulledInStep(id) == id \in Ids(last.atCull) /\ IsFar(Body(last.atCull, id))

\* body id of the collection before the step is in the store after it
StillInStore(id) == id \in Ids(objects)

\* C25: a step creates no body, reorders none and removes no fixed body: the
\* store after the step holds, in the order they had, bodies of the store
\* before the step, every fixed one among them, and every body that is missing
\* was absorbed in a merge of the step or culled by it.
C25_StepKeepsOrderAndFixedBodies ==
    last.op = "step" =>
        /\ IdsOf(objects) = SelectSeq(IdsOf(last.before), StillInStore)
        /\ \A i \in 1..Len(last.before) :
               /\ last.before[i].pinned => StillInStore(last.before[i].id)
               /\ ~StillInStore(last.before[i].id)
                      => \/ AbsorbedInStep(last.before[i].id)
                         \/ CulledInStep(last.before[i].id)

\* a step that left a fixed body beyond the cull distance in the store, after
\* the body before it had been absorbed and the absorber culled
C25_Witness ==
    /\ last.op = "step"
    /\ Len(last.before) = 3
    /\ Len(objects) = 1
    /\ objects[1].pinned /\ IsFarAlsoPinned(objects[1])
    /\ objects[1].id = last.before[3].id
    /\ AbsorbedInStep(last.before[2].id)
    /\ CulledInStep(last.before[1].id)


----------------------------------------------------------------------------
\* Properties of the merge animation (timer and flash in thousandths)

\* body id absorbed another body in the step
SurvivorInStep(id) == \E n \in 1..Len(last.merges) : last.merges[n].into.id = id

\* the bodies that went through the step without absorbing another one
Bystanders ==
    {i \in 1..Len(last.before) :
        /\ StillInStore(last.before[i].id)
        /\ ~SurvivorInStep(last.before[i].id)}

\* a scalar that was v before a step and is w after it has decayed
Decayed(v, w) == IF v > 0 THEN 0 <= w /\ w < v ELSE w = v

StepsSinceMerge(t) == (1000 - t) \div 15

----------------------------------------------------------------------------
\* Properties of the game modes

\* what a step of the game does to the collection the challenge has saved:
\* entering from the sandbox saves the store and the merge flag, no step made
\* in the mode changes what was saved, and leaving puts it back
ChallengeKeepsSandbox ==
    /\ (Sandbox /\ challenge'.active)
           => /\ challenge'.savedObjects = objects
              /\ challenge'.savedMerge = mergeOnCollision
    /\ (challenge.active /\ challenge'.active)
           => /\ challenge'.savedObjects = challenge.savedObjects
              /\ challenge'.savedMerge = challenge.savedMerge
    /\ (challenge.active /\ ~challenge'.active)
           => /\ objects' = challenge.savedObjects
              /\ mergeOnCollision' = challenge.savedMerge

\* the same for target practice
TargetKeepsSandbox ==
    /\ (Sandbox /\ target'.active)
           => /\ target'.savedObjects = objects
              /\ target'.savedMerge = mergeOnCollision
    /\ (target.active /\ target'.active)
           => /\ target'.savedObjects = target.savedObjects
              /\ target'.savedMerge = target.savedMerge
    /\ (target.active /\ ~target'.active)
           => /\ objects' = target.savedObjects
              /\ mergeOnCollision' = target.savedMerge

\* C27: entering a game mode from the sandbox and leaving it later, whatever
\* level changes, launches, retries and steps lie in between, gives the store
\* back exactly as it was when the mode was entered, the same bodies in the
\* same order, and gives the merge flag back: what Enter saves is the store
\* and the flag of the sandbox, nothing done in the mode changes what was
\* saved, and Exit puts the saved store and flag in place.
C27_ExitRestoresSandbox ==
    [][ChallengeKeepsSandbox /\ TargetKeepsSandbox]_vars

\* the sandbox right after a mode was left in which a body had been launched
\* and steps were made: the store is not the one of the mode and holds bodies,
\* and the merge flag has changed back
C27_Witness ==
    /\ last.op = "exit"
    /\ Sandbox
    /\ ticks > 0
    /\ Len(objects) = 2
    /\ \E i \in 1..Len(last.before) : ~last.before[i].pinned
    /\ Ids(last.before) \cap Ids(objects) = {}
    /\ last.merge # mergeOnCollision


\* the scan of the last tick found the orbiter overlapping a fixed body
OrbiterHitPlanet ==
    \E k \in 1..Len(last.pairs) :
        /\ Touching(last.pairs[k].o, last.pairs[k].obj)
        /\ \/ /\ last.pairs[k].o.id = last.challenge.orbiter
              /\ last.pairs[k].obj.pinned
           \/ /\ last.pairs[k].obj.id = last.challenge.orbiter
              /\ last.pairs[k].o.pinned

\* C28: when, in the orbit challenge, the orbiter overlaps a fixed planet in
\* a step made while the round is in the state Orbiting, the Challenge.Update
\* that follows the step moves the round to Crashed and removes the orbiter
\* from the store.
C28_OverlapCrashes ==
    (/\ last.op = "tick"
     /\ last.challenge.active
     /\ last.challenge.state = "Orbiting"
     /\ last.challenge.orbiter # Nil
     /\ OrbiterHitPlanet)
        => /\ challenge.state = "Crashed"
           /\ challenge.orbiter = Nil
           /\ last.challenge.orbiter \notin Ids(objects)


\* the bodies of the store that are not fixed
NonFixed(objs) == {i \in 1..Len(objs) : ~objs[i].pinned}

\* the changes of the state of the round that a step of the game may make,
\* with the call that makes each
RoundTransition ==
    challenge'.state # challenge.state
        => \/ /\ challenge.state = "Aiming" /\ challenge'.state = "Orbiting"
              /\ last'.op = "launch"
           \/ /\ challenge.state = "Orbiting"
              /\ challenge'.state \in {"Crashed", "Escaped"}
              /\ last'.op = "tick"
           \/ /\ challenge.state \in {"Crashed", "Escaped"}
              /\ challenge'.state = "Aiming"
              /\ last'.op = "retry"
           \/ /\ challenge'.state = "Aiming"
              /\ last'.op \in {"enter", "level", "retry"}

\* the calls that do nothing outside the state they are for
RoundNoOps ==
    /\ (last'.op \in {"launch", "level"} /\ challenge.state # "Aiming")
           => UNCHANGED <<challenge, objects, nextId>>
    /\ (last'.op = "retry" /\ challenge.state \notin {"Crashed", "Escaped"})
           => UNCHANGED <<challenge, objects, nextId>>

\* in the mode the round is in flight exactly when an orbiter is tracked, and
\* the store holds at most one body that is not fixed
RoundTracksOrbiter ==
    challenge'.active
        => /\ (challenge'.state = "Orbiting") <=> (challenge'.orbiter # Nil)
           /\ Cardinality(NonFixed(objects')) <= 1
           /\ \A i \in NonFixed(objects') :
                  objects'[i].id = challenge'.orbiter

\* C29: the state of a round of the orbit challenge changes only from Aiming
\* to Orbiting by LaunchOrbiter, from Orbiting to Crashed or Escaped by the
\* tracking of a tick, from Crashed or Escaped to Aiming by RetryLevel, and to
\* Aiming by a level load; LaunchOrbiter and ChangeLevel do nothing unless the
\* state is Aiming, RetryLevel does nothing unless it is Crashed or Escaped;
\* and while the mode is active the state is Orbiting exactly when an orbiter
\* is tracked, with at most one body in the world that is not fixed.
C29_RoundStateMachine ==
    [][RoundTransition /\ RoundNoOps /\ RoundTracksOrbiter]_vars

\* a round back at Aiming by RetryLevel after the tracking had ended it
C29_Witness ==
    /\ challenge.active
    /\ last.op = "retry"
    /\ last.from = "Escaped"
    /\ challenge.state = "Aiming"
    /\ ticks > 0

\* a launch that did nothing, the round being in flight
C29_NoOpWitness ==
    /\ challenge.active
    /\ last.op = "launch"
    /\ last.from = "Orbiting"
    /\ challenge.state = "Orbiting"
    /\ ticks > 0
    /\ challenge.orbiter \in Ids(objects)


----------------------------------------------------------------------------
\* Properties of the input layer

\* C30: in the sandbox the body the input layer has selected and the body it
\* drags are, when set, bodies of the store: a body that a merge or the
\* culling has removed is no longer selected or dragged, so that Delete,
\* pin/unpin and drag never act on a body that is not in the store.
C30_SelectionIsLive ==
    /\ input.selectedObj # Nil => input.selectedObj \in Ids(objects)
    /\ (input.dragging /\ input.dragObj # Nil) => input.dragObj \in Ids(objects)
    /\ (last.op \in {"delete", "pin", "drag"} /\ last.id # Nil)
           => last.live

=============================================================================
